---- MODULE Spec2Model ----
(***************************************************************************)
(* Model of the signal-to-order execution and reconciliation engine of     *)
(* trading_bot.py: BinanceFuturesTrader.execute_signal with its order      *)
(* placers, the in-memory ledger active_trades, and the asyncio tasks of   *)
(* TelegramSignalListener (handle_message, periodic_order_check,           *)
(* check_order_status).                                                    *)
(*                                                                         *)
(* asyncio is cooperative: a task runs until it awaits a network call of   *)
(* the Telegram client.  The ccxt exchange client is synchronous, so an    *)
(* exchange call is no suspension point.  Every action below is one        *)
(* maximal non-suspending segment of one task, or one step of the          *)
(* exchange.                                                               *)
(***************************************************************************)
EXTENDS Integers, Sequences, FiniteSets, TLC

\* ------------------------------------------------------------------ bounds
MaxPosition == 1       \* entries stacked on one symbol's open position
MaxDashFail == 1       \* dashboard_state writes that raise (OSError) in a run
MaxTargets == 2        \* numbered target lines found in one text

\* ------------------------------------------------------- program constants
DryRunBalance == 1000  \* get_balance, dry run
BalancePercent == 15   \* calculate_position_size: balance * 0.15
QtyScale == 1000       \* quantize(Decimal('0.001')): quantities in 1/1000
LevScale == 2          \* float(leverage_match.group(1)): leverages in 1/2

\* The ledger is keyed by symbol and a pass reconciles one symbol at a time.
\* The signals of the channel name the first symbol; a ledger that holds
\* trades of both is where SpecIter starts.
Symbols == {1, 2}
SignalSymbols == {1}
Legs == {"sl", "tp"}
LoopTasks == {1, 2}

\* Identities of trade dicts.  A dict is alive while the ledger or a suspended
\* pass refers to it.  The dict stored under symbol s has identity s; a dict
\* that only suspended passes still hold has identity NumKeys + k, k the
\* lowest task holding it.  NewId names a dict during the step creating it.
NumKeys == Cardinality(Symbols)
TradeIds == 1..(NumKeys + Cardinality(LoopTasks))
NewId == NumKeys + Cardinality(LoopTasks) + 1

VARIABLES
    dry_run,              \* BinanceFuturesTrader.dry_run
    notification_chat_id, \* TRUE iff TelegramSignalListener.notification_chat_id is set
    active_trades,        \* ledger: symbol -> trade object (0: key absent)
    key_order,            \* insertion order of the ledger's keys
    trades,               \* the trade dict objects, by identity
    orders,               \* exchange: conditional orders of each execution
    position,             \* exchange: open position size per symbol, in entries
    hpc,                  \* handle_message: where the handler task is suspended
                          \* ("off": start_listening has not registered it yet)
    started,              \* reconciliation tasks that have been created
    lpc, todo, cur,       \* periodic_order_check / check_order_status per task
    dashFails,            \* dashboard writes that have raised so far
    cancelCalls,          \* calls of a living trade's orders that reached the exchange
    notifyCalls,          \* 'target achieved' send_notification calls per living trade
    ev                    \* what the last step did (calls made, result)

vars == <<dry_run, notification_chat_id, active_trades, key_order, trades,
          orders, position, hpc, started, lpc, todo, cur, dashFails,
          cancelCalls, notifyCalls, ev>>

config == <<dry_run, notification_chat_id, started>>
ledger == <<active_trades, key_order, trades>>
exchange == <<orders, position>>
loops == <<lpc, todo, cur>>
counters == <<cancelCalls, notifyCalls>>

\* ----------------------------------------------------------------- values
Call(api, arg) == [api |-> api, arg |-> arg]

\* where a conditional order lives and the states the exchange reports for it
Venues == {"primary", "algo"}
Statuses == {"open", "filled", "canceled", "rejected", "expired"}

NoOrder == [venue |-> "none", status |-> "none"]
NoOrders == [sl |-> NoOrder, tp |-> NoOrder]

\* a trade dict as stored by execute_signal: tp_orders has the single key 1;
\* entry_price, position_size, direction, leverage and targets are read only
\* to format the text of the notification and are left out.  sym is the key
\* the dict was stored under.
NoTrade == [sym |-> 0, sl_order_id |-> "none", tp_order_id |-> "none",
            tp1_notified |-> FALSE]

NoMsg == [kind |-> "-", symbol |-> 0, leverage |-> 0,
          entry_price |-> 0, targets |-> <<>>]

\* the outcomes of a run in which every call succeeds
DefaultInput == [lev |-> TRUE, bal |-> 1000, mkt |-> TRUE, slP |-> "ok", slA |-> "ok",
                 tpP |-> "ok", tpA |-> "ok", D |-> {}]

NoEv == [op |-> "init", task |-> 0, sym |-> 0, trade |-> 0, calls |-> <<>>,
         ret |-> "-", entry |-> "-", sl |-> "-", tp |-> "-", seen |-> "-",
         raised |-> FALSE, abort |-> "-", x |-> DefaultInput,
         stored |-> FALSE, had |-> FALSE, removed |-> 0,
         nsl |-> 0, ntp |-> 0, nnotify |-> 0,
         qfail |-> FALSE, escaped |-> FALSE, obs |-> <<>>,
         sink |-> "-", text |-> "-"]

NoCur == [sym |-> 0, trade |-> 0]

\* leverages 0 and 10, in 1/LevScale
Leverages == {0, 20}
EntryPrices == {0, 100}
Balances == {-1, 0, 1000}     \* -1: fetch_balance raised (get_balance returns None)

\* take-profit price of a signal: the first target after sorting
TargetOf(entry_price) == entry_price + 10

Messages ==
    {[NoMsg EXCEPT !.kind = "chatter"], [NoMsg EXCEPT !.kind = "malformed"]}
    \cup {[kind |-> "signal", symbol |-> s, leverage |-> l,
           entry_price |-> e, targets |-> <<TargetOf(e)>>] :
            s \in SignalSymbols, l \in Leverages, e \in EntryPrices}

\* dashboard_state calls that can raise (a write of the state file failing),
\* by source line.  A raise at 510/585 (record_error, append_log on the failure
\* exit of a placer) changes nothing: that exit returns None anyway.  715,
\* 1239 and 1290 follow 709, 1238 and 1289 with the same effect.
ExecDashPoints == {"log627", "log658", "sl_ok523", "tp_ok597", "record_trade709"}
ParseDashPoints == {"record_signal169"}
PassDashPoints == {"record_tp1238", "log1250", "log1262", "log1281",
                   "record_error1289"}

\* record_error in the except block of check_order_status writes the state
\* file right after the write that raised: its raise belongs to that failure
Failures(D) == Cardinality(D \ {"record_error1289"})

DashChoices(points) ==
    {D \in SUBSET points : Failures(D) <= MaxDashFail - dashFails}

\* ------------------------------------------------------------- the sizer
\* calculate_position_size: (balance * 0.15 * leverage) / entry_price, quantized
\* down to 0.001; the result is in thousandths, the leverage in 1/LevScale.
\* entry_price = 0 raises
\* ZeroDivisionError, reported here as -1.
\* a sizer that rounds to the nearest step above (checked against C27)
SizeRoundedUp(balance, entry_price, leverage) ==
    IF entry_price = 0 THEN -1
    ELSE (balance * BalancePercent * leverage * QtyScale
             + 100 * entry_price * LevScale - 1)
            \div (100 * entry_price * LevScale)

calculate_position_size(balance, entry_price, leverage) ==
    IF entry_price = 0 THEN -1
    ELSE (balance * BalancePercent * leverage * QtyScale)
            \div (100 * entry_price * LevScale)

\* -------------------------------------------------------- order placement
PrimaryOutcomes == {"ok", "e4120", "err"}
AlgoOutcomes == {"ok", "fail"}

\* A placement: the id returned, where the order now lives on the exchange,
\* the exchange calls made, and which outcomes (used) and dashboard calls
\* (points) the run consumed.
Placement(id, venue, calls, used, points) ==
    [id |-> id, venue |-> venue, calls |-> calls, used |-> used, points |-> points]

NoPlacement == Placement("-", "none", <<>>, {}, {})

\* an algo placement that is sent again after a failure (checked against C22)
PlaceAlgoRetried(type, a) ==
    [id |-> IF a = "ok" THEN "real" ELSE "none",
     calls |-> IF a = "ok" THEN <<Call("algoOrder_post", type)>>
               ELSE <<Call("algoOrder_post", type), Call("algoOrder_post", type)>>]

\* _place_algo_conditional_order: the algo id, or None on any failure
_place_algo_conditional_order(type, a) ==
    [id |-> IF a = "ok" THEN "real" ELSE "none",
     calls |-> <<Call("algoOrder_post", type)>>]

\* a placer that falls back to a plain limit order when both endpoints
\* refuse the conditional order (checked against C7)
PlaceConditionalLimitFallback(type, dry, p, a, D, okPoint, pName, aName) ==
    IF dry THEN Placement("dry", "none", <<>>, {}, {})
    ELSE
      LET primary == <<Call("create_order", type)>>
          algo == _place_algo_conditional_order(type, a)
          limit == <<Call("create_order", "LIMIT")>>
          logged(id) == IF okPoint \in D THEN "none" ELSE id
      IN  CASE p = "ok" ->
                 Placement(logged("real"), "primary", primary, {pName}, {okPoint})
            [] p = "e4120" ->
                 IF algo.id # "none"
                 THEN Placement(logged(algo.id), "algo", primary \o algo.calls,
                                {pName, aName}, {okPoint})
                 ELSE Placement(logged("real"), "primary",
                                primary \o algo.calls \o limit,
                                {pName, aName}, {okPoint})
            [] OTHER ->
                 Placement(logged("real"), "primary", primary \o limit,
                           {pName}, {okPoint})

\* the shared shape of place_stop_loss_order and place_take_profit_order:
\* one create_order; on -4120 one algo order; no other order type is tried.
\* okPoint is the append_log on the success exit; pName/aName name the outcomes.
\* a placer that goes to the algo endpoint after any error of the primary
\* one (checked against C31)
PlaceConditionalAnyError(type, dry, p, a, D, okPoint, pName, aName) ==
    IF dry THEN Placement("dry", "none", <<>>, {}, {})
    ELSE
      LET primary == <<Call("create_order", type)>>
          algo == _place_algo_conditional_order(type, a)
          logged(id) == IF okPoint \in D THEN "none" ELSE id
      IN  IF p = "ok"
          THEN Placement(logged("real"), "primary", primary, {pName}, {okPoint})
          ELSE IF algo.id # "none"
          THEN Placement(logged(algo.id), "algo", primary \o algo.calls,
                         {pName, aName}, {okPoint})
          ELSE Placement("none", "none", primary \o algo.calls, {pName, aName}, {})

PlaceConditional(type, dry, p, a, D, okPoint, pName, aName) ==
    IF dry THEN Placement("dry", "none", <<>>, {}, {})
    ELSE
      LET primary == <<Call("create_order", type)>>
          algo == _place_algo_conditional_order(type, a)
          logged(id) == IF okPoint \in D THEN "none" ELSE id
      IN  CASE p = "ok" ->
                 Placement(logged("real"), "primary", primary, {pName}, {okPoint})
            [] p = "e4120" ->
                 IF algo.id # "none"
                 THEN Placement(logged(algo.id), "algo", primary \o algo.calls,
                                {pName, aName}, {okPoint})
                 ELSE Placement("none", "none", primary \o algo.calls,
                                {pName, aName}, {})
            [] OTHER ->
                 Placement("none", "none", primary, {pName}, {})

place_stop_loss_order(dry, leverage, p, a, D) ==
    IF leverage = 0    \* 1.70 / leverage raises; the outer except returns None
    THEN Placement("none", "none", <<>>, {}, {})
    ELSE PlaceConditional("STOP_MARKET", dry, p, a, D, "sl_ok523", "slP", "slA")

place_take_profit_order(dry, p, a, D) ==
    PlaceConditional("TAKE_PROFIT_MARKET", dry, p, a, D, "tp_ok597", "tpP", "tpA")

\* ----------------------------------------------------------- execute_signal
\* x: the outcomes of the exchange calls and the dashboard writes that raise:
\*    lev (set_leverage ok), bal (balance, -1 = raised), mkt (entry ok),
\*    slP/slA/tpP/tpA (primary and algo placement outcomes), D.
ExecResult(ret, abort, calls, entry, size, sl, tp, stored, used, points) ==
    [ret |-> ret, abort |-> abort, calls |-> calls, entry |-> entry,
     position_size |-> size, sl |-> sl, tp |-> tp, stored |-> stored,
     used |-> used, points |-> points]

\* a pipeline that goes on after set_leverage failed (checked against C5)
LeverageNeverFailed(dry, lev) == FALSE

\* line 634: if not self.set_leverage(...): return False
LeverageFailed(dry, lev) == ~dry /\ ~lev

\* a pipeline that goes on after the entry order failed (checked against C2)
EntryNeverFailed(dry, mkt) == FALSE

\* lines 665-668: if not entry_order_id: return False
EntryFailed(dry, mkt) == ~dry /\ ~mkt

execute_signal(signal, dry, x) ==
    LET Abort(why, calls, entry, size, sl, tp, used, points) ==
            ExecResult("fail", why, calls, entry, size, sl, tp, FALSE, used, points)
        live(names) == IF dry THEN {} ELSE names
        c1 == IF dry THEN <<>> ELSE <<Call("set_leverage", "-")>>
        c2 == c1 \o (IF dry THEN <<>> ELSE <<Call("fetch_balance", "-")>>)
        balance == IF dry THEN DryRunBalance ELSE x.bal
        size == calculate_position_size(balance, signal.entry_price, signal.leverage)
        c4 == c2 \o (IF dry THEN <<>> ELSE <<Call("create_market_order", "MARKET")>>)
        entry == IF ~dry /\ ~x.mkt THEN "fail" ELSE "ok"
        sl == place_stop_loss_order(dry, signal.leverage, x.slP, x.slA, x.D)
        c5 == c4 \o sl.calls
        tp == place_take_profit_order(dry, x.tpP, x.tpA, x.D)
        c6 == c5 \o tp.calls
        u1 == live({"lev"})
        u2 == live({"lev", "bal"})
        u4 == live({"lev", "bal", "mkt"})
        d2 == {"log627", "log658"}
        u6 == u4 \cup sl.used \cup tp.used
        d6 == d2 \cup sl.points \cup tp.points \cup {"record_trade709"}
    IN  IF "log627" \in x.D
        THEN Abort("raise", <<>>, "none", 0, NoPlacement, NoPlacement, {}, {"log627"})
        ELSE IF LeverageFailed(dry, x.lev)
        THEN Abort("leverage", c1, "none", 0, NoPlacement, NoPlacement, u1, {"log627"})
        ELSE IF balance <= 0
        THEN Abort("balance", c2, "none", 0, NoPlacement, NoPlacement, u2, {"log627"})
        ELSE IF size <= 0
        THEN Abort("quantity", c2, "none", 0, NoPlacement, NoPlacement, u2, {"log627"})
        ELSE IF "log658" \in x.D
        THEN Abort("raise", c2, "none", size, NoPlacement, NoPlacement, u2, d2)
        ELSE IF EntryFailed(dry, x.mkt)
        THEN Abort("entry", c4, entry, size, NoPlacement, NoPlacement, u4, d2)
        ELSE IF Len(signal.targets) < 1
        THEN Abort("targets", c5, entry, size, sl, NoPlacement,
                   u4 \cup sl.used, d2 \cup sl.points)
        ELSE IF "record_trade709" \in x.D
        THEN Abort("raise", c6, entry, size, sl, tp, u6, d6)
        ELSE ExecResult("ok", "-", c6, entry, size, sl, tp, TRUE, u6, d6)

\* ------------------------------------------------------------- the parser
\* a parser that fills the fields a text lacks with defaults (checked
\* against C33)
ParseWithDefaults(m, D) ==
    IF m.kind = "chatter" THEN NoMsg
    ELSE IF "record_signal169" \in D THEN NoMsg
    ELSE [kind |-> "signal", symbol |-> 1, leverage |-> 10 * LevScale, entry_price |-> 100,
          targets |-> <<TargetOf(100)>>]

\* parse_signal on the texts of Messages, of which only the outcome matters
\* to the handler (SignalParser below reads the fields): None when a field is
\* missing, and None when record_signal or append_log raises inside its try
\* block.
parse_signal(m, D) ==
    IF m.kind # "signal" THEN NoMsg
    ELSE IF "record_signal169" \in D THEN NoMsg
    ELSE m

\* --------------------------------------------------------------- scheduling
\* A task may take a step only while no other task is inside a non-suspending
\* segment (a reconciliation iteration between two awaits).
NoOtherRunning(k) == \A j \in LoopTasks \ {k} : lpc[j] # "checking"

\* ------------------------------------------------------------------ ledger
Present(sym) == active_trades[sym] # 0

Remove(seq, s) == SelectSeq(seq, LAMBDA e : e # s)

\* the dict that gets identity c once the step is over (0: none)
Holder(c, at, cu) ==
    IF c <= NumKeys THEN at[c]
    ELSE LET k == c - NumKeys
             t == cu[k].trade
         IN  IF /\ t # 0
                /\ \A s \in Symbols : at[s] # t
                /\ \A j \in LoopTasks : j < k => cu[j].trade # t
             THEN t ELSE 0

Renamed(t, at, cu) ==
    IF t = 0 THEN 0 ELSE CHOOSE c \in TradeIds : Holder(c, at, cu) = t

NoCancels == [l \in Legs |-> 0]

\* an order that is no longer open, of a dict that left the ledger: cancel_order
\* and the algo delete both refuse it, whatever closed it and wherever it lived
Gone == [venue |-> "none", status |-> "closed"]

\* A dict that left the ledger is read again only at line 1247, for its
\* sl_order_id: its other fields are dropped.
Kept(c, trade) ==
    IF c <= NumKeys THEN trade
    ELSE [trade EXCEPT !.tp_order_id = "none", !.tp1_notified = FALSE]

\* the exchange orders the program can still name: those whose id a living
\* trade dict holds and line 1247 or a later pass can read.  Any other order
\* can reach the program only through the position it closes, which
\* ClosePosition covers.
Known(c, ord, trade) ==
    [sl |-> IF trade.sl_order_id # "real" THEN NoOrder
            ELSE IF c > NumKeys /\ ord.sl.status # "open" THEN Gone
            ELSE ord.sl,
     tp |-> IF trade.tp_order_id = "real" /\ c <= NumKeys THEN ord.tp ELSE NoOrder]

\* the new ledger, exchange orders, pass locals and call counts of a step;
\* dicts nothing refers to any more are dropped with their counts
Commit(at, ko, tr, ord, cu, cc, nc) ==
    /\ active_trades' = [s \in Symbols |-> IF at[s] = 0 THEN 0 ELSE s]
    /\ key_order' = ko
    /\ trades' = [c \in TradeIds |->
                     LET t == Holder(c, at, cu)
                     IN  IF t = 0 THEN NoTrade ELSE Kept(c, tr[t])]
    /\ orders' = [c \in TradeIds |->
                     LET t == Holder(c, at, cu)
                     IN  IF t = 0 THEN NoOrders ELSE Known(c, ord[t], tr[t])]
    /\ cur' = [k \in LoopTasks |->
                  [sym |-> cu[k].sym, trade |-> Renamed(cu[k].trade, at, cu)]]
    /\ cancelCalls' = [c \in TradeIds |->
                          LET t == Holder(c, at, cu)
                          IN  IF t = 0 THEN NoCancels
                              ELSE [sl |-> cc[t]["sl"],
                                    tp |-> IF c <= NumKeys THEN cc[t]["tp"] ELSE 0]]
    /\ notifyCalls' = [c \in TradeIds |->
                          LET t == Holder(c, at, cu)
                          IN  IF t = 0 THEN 0 ELSE nc[t]]

PlacedOrder(pl) ==
    IF pl.venue = "none" THEN NoOrder ELSE [venue |-> pl.venue, status |-> "open"]

\* ------------------------------------------------------- notification sink
\* how an awaited call of the Telegram client ends: the message went out, or
\* the client raised (entity not resolved, flood wait, connection lost)
SinkOutcomes == {"sent", "failed"}

\* a sink whose failure reaches the caller (checked against C23)
SinkUncaught(outcome) == IF outcome = "failed" THEN "raised" ELSE "returned"

\* forward_signal, lines 1168-1203: the inner and the outer try catch every
\* exception of get_entity and forward_messages
forward_signal(outcome) == "returned"

\* a notification whose failure reaches the pass (checked against C23)
NotifyUncaught(outcome) == IF outcome = "failed" THEN "raised" ELSE "returned"

\* send_notification, lines 1131-1161: likewise for get_entity and send_message
send_notification(outcome) == "returned"

\* ------------------------------------------------------------ handle_message
\* lines 1319-1341: parse, execute, and await the entry notification
HandleBody(m, x) ==
    LET signal == parse_signal(m, x.D)
    IN  IF signal.kind # "signal"
        THEN /\ hpc' = "idle"
             /\ ev' = [NoEv EXCEPT !.op = "discard", !.x = x, !.text = m.kind]
             /\ dashFails' = dashFails + Failures(x.D)
             /\ UNCHANGED <<ledger, exchange, cur, counters>>
        ELSE
          LET r == execute_signal(signal, dry_run, x)
              s == signal.symbol
              opened == r.entry = "ok"
              notify == r.ret = "ok" /\ notification_chat_id
              stored == [sym |-> s, sl_order_id |-> r.sl.id,
                         tp_order_id |-> r.tp.id, tp1_notified |-> FALSE]
          IN  /\ dashFails' = dashFails + Failures(x.D)
              /\ position' = IF opened /\ ~dry_run
                             THEN [position EXCEPT ![s] = @ + 1]
                             ELSE position
              /\ IF r.stored
                 THEN Commit([active_trades EXCEPT ![s] = NewId],
                             IF Present(s) THEN key_order ELSE Append(key_order, s),
                             (NewId :> stored) @@ trades,
                             (NewId :> [sl |-> PlacedOrder(r.sl),
                                        tp |-> PlacedOrder(r.tp)]) @@ orders,
                             cur, (NewId :> NoCancels) @@ cancelCalls,
                             (NewId :> 0) @@ notifyCalls)
                 ELSE UNCHANGED <<ledger, orders, cur, counters>>
              /\ hpc' = IF notify THEN "notify" ELSE "idle"
              /\ ev' = [NoEv EXCEPT !.op = "execute", !.sym = s,
                          !.trade = IF r.stored THEN s ELSE 0,
                          !.had = Present(s),
                          !.calls = r.calls \o
                              (IF notify THEN <<Call("send_message", "entry")>>
                               ELSE <<>>),
                          !.ret = r.ret, !.entry = r.entry, !.abort = r.abort,
                          !.x = x, !.text = m.kind,
                          !.sl = r.sl.id, !.tp = r.tp.id, !.stored = r.stored]

PlacementPairs == {<<"ok", "ok">>, <<"err", "ok">>, <<"e4120", "ok">>, <<"e4120", "fail">>}

\* outcomes of the steps up to the entry order
EntryInputs ==
    {[DefaultInput EXCEPT !.lev = FALSE], [DefaultInput EXCEPT !.mkt = FALSE]}
    \cup {[DefaultInput EXCEPT !.bal = b] : b \in Balances}
    \cup {[DefaultInput EXCEPT !.D = D] :
            D \in DashChoices({"record_signal169", "log627", "log658"})}

\* x continued with outcomes of the steps after the entry order
ProtectInputs(x) ==
    {[x EXCEPT !.slP = s[1], !.slA = s[2], !.tpP = t[1], !.tpA = t[2], !.D = D] :
        s \in PlacementPairs, t \in PlacementPairs,
        D \in DashChoices({"sl_ok523", "tp_ok597", "record_trade709"})}

\* the outcomes a run of the handler can meet: an outcome of a call that is
\* not made, or a raise of a dashboard call that is not reached, is no input
Consumed(x, used, points) ==
    /\ x.D \subseteq points
    /\ \A f \in {"lev", "bal", "mkt", "slP", "slA", "tpP", "tpA"} \ used :
          x[f] = DefaultInput[f]

\* the texts that carry a direction marker; signals stop naming a symbol
\* whose position has MaxPosition entries stacked
Marked ==
    {m \in Messages :
        /\ m.kind # "chatter"
        /\ m.kind = "signal" => position[m.symbol] < MaxPosition}

\* handle_message from parse_signal on, for every text and every outcome
\* that text can meet
Handle ==
    \E m \in Marked :
        IF m.kind # "signal" THEN HandleBody(m, DefaultInput)
        ELSE \E x \in EntryInputs :
            IF "record_signal169" \in x.D
            THEN x.D = {"record_signal169"} /\ HandleBody(m, x)
            ELSE \E r \in {execute_signal(m, dry_run, x)} :
                IF r.abort \notin {"-", "targets"}
                THEN Consumed(x, r.used, r.points) /\ HandleBody(m, x)
                ELSE /\ x.D = {}
                     /\ \E y \in ProtectInputs(x) :
                          \E q \in {execute_signal(m, dry_run, y)} :
                             Consumed(y, q.used, q.points) /\ HandleBody(m, y)

\* a new message of the monitored channel, lines 1306-1317.  The text is not
\* looked at between the marker test and parse_signal, so its fields are
\* drawn where parse_signal reads them.
Receive(marker) ==
    /\ hpc = "idle"
    /\ NoOtherRunning(0)
    /\ UNCHANGED <<config, lpc, todo>>
    /\ IF ~marker
       THEN /\ ev' = [NoEv EXCEPT !.op = "discard"]
            /\ UNCHANGED <<ledger, exchange, hpc, cur, dashFails, counters>>
       ELSE IF notification_chat_id
       THEN \* await self.forward_signal(event)
            /\ hpc' = "forward"
            /\ ev' = [NoEv EXCEPT !.op = "receive",
                        !.calls = <<Call("forward_messages", "-")>>]
            /\ UNCHANGED <<ledger, exchange, cur, dashFails, counters>>
       ELSE Handle

\* what handle_message does once the await of forward_signal is over and the
\* forward ended as fwd; an exception leaving forward_signal would end
\* handle_message in its except block (line 1343)
ForwardOver(fwd) ==
    IF forward_signal(fwd) = "raised"
    THEN /\ hpc' = "idle"
         /\ ev' = [NoEv EXCEPT !.op = "discard", !.raised = TRUE]
         /\ UNCHANGED <<ledger, exchange, cur, dashFails, counters>>
    ELSE Handle

AfterForward ==
    /\ hpc = "forward"
    /\ NoOtherRunning(0)
    /\ UNCHANGED <<config, lpc, todo>>
    /\ \E fwd \in SinkOutcomes : ForwardOver(fwd)

\* send_notification of the entry message has returned
HandlerNotified ==
    /\ hpc = "notify"
    /\ NoOtherRunning(0)
    /\ hpc' = "idle"
    /\ ev' = [NoEv EXCEPT !.op = "handler_done"]
    /\ UNCHANGED <<config, ledger, exchange, loops, dashFails, counters>>

\* ------------------------------------------------- cancel and status lookup
QueryFail == {"none", "primary", "algo"}   \* which call raises a network error

\* what the exchange answers to cancel_order(order_id, symbol): a network
\* error, success for an open order of the primary system, 'Unknown order'
\* (-2011) for any other id
PrimaryCancel(ord, f) ==
    IF f = "primary" THEN "error"
    ELSE IF ord.venue = "primary" /\ ord.status = "open" THEN "ok"
    ELSE "unknown"

\* what the exchange answers to the algo delete: success for an open algo order
AlgoCancel(ord, f) ==
    IF f # "algo" /\ ord.venue = "algo" /\ ord.status = "open" THEN "ok" ELSE "fail"

\* a cancel that goes to the algo endpoint first (checked against C19)
CancelAlgoFirst(order_id, ord, f) ==
    IF order_id # "real" THEN [ret |-> TRUE, calls |-> <<>>, ord |-> ord]
    ELSE IF AlgoCancel(ord, f) = "ok"
    THEN [ret |-> TRUE, calls |-> <<Call("algoOrder_delete", "-")>>,
          ord |-> [ord EXCEPT !.status = "canceled"]]
    ELSE [ret |-> PrimaryCancel(ord, f) = "ok",
          calls |-> <<Call("algoOrder_delete", "-"), Call("cancel_order", "-")>>,
          ord |-> IF PrimaryCancel(ord, f) = "ok"
                  THEN [ord EXCEPT !.status = "canceled"] ELSE ord]

\* _cancel_conditional_order: cancel_order first; on an 'unknown order' class
\* of error (the order is an algo order, or is no longer open) the algo delete.
_cancel_conditional_order(order_id, ord, f) ==
    IF order_id # "real" THEN [ret |-> TRUE, calls |-> <<>>, ord |-> ord]
    ELSE IF PrimaryCancel(ord, f) = "error"
    THEN [ret |-> FALSE, calls |-> <<Call("cancel_order", "-")>>, ord |-> ord]
    ELSE IF PrimaryCancel(ord, f) = "ok"
    THEN [ret |-> TRUE, calls |-> <<Call("cancel_order", "-")>>,
          ord |-> [ord EXCEPT !.status = "canceled"]]
    ELSE LET both == <<Call("cancel_order", "-"), Call("algoOrder_delete", "-")>>
         IN  IF AlgoCancel(ord, f) = "ok"
             THEN [ret |-> TRUE, calls |-> both,
                   ord |-> [ord EXCEPT !.status = "canceled"]]
             ELSE [ret |-> FALSE, calls |-> both, ord |-> ord]

\* a lookup that asks the exchange about a synthetic id too (checked against
\* C37)
StatusOfSyntheticId(order_id, ord, f) ==
    IF order_id = "none" THEN [ret |-> "None", calls |-> <<>>]
    ELSE IF f = "primary" \/ order_id = "dry"
    THEN [ret |-> "None", calls |-> <<Call("fetch_order", "-")>>]
    ELSE IF ord.venue = "primary"
    THEN [ret |-> IF ord.status \in {"filled", "canceled", "rejected"}
                  THEN "closed" ELSE "open",
          calls |-> <<Call("fetch_order", "-")>>]
    ELSE LET both == <<Call("fetch_order", "-"), Call("algoOrder_get", "-")>>
         IN  IF f = "algo" THEN [ret |-> "None", calls |-> both]
             ELSE [ret |-> IF ord.status \in {"filled", "canceled", "rejected", "expired"}
                           THEN "closed" ELSE "open",
                   calls |-> both]

\* a lookup that reports an order it could not look up as closed (checked
\* against C35)
StatusUnknownIsClosed(order_id, ord, f) ==
    IF order_id # "real" THEN [ret |-> "None", calls |-> <<>>]
    ELSE IF f = "primary"
    THEN [ret |-> "closed", calls |-> <<Call("fetch_order", "-")>>]
    ELSE IF ord.venue = "primary"
    THEN [ret |-> IF ord.status \in {"filled", "canceled", "rejected"}
                  THEN "closed" ELSE "open",
          calls |-> <<Call("fetch_order", "-")>>]
    ELSE LET both == <<Call("fetch_order", "-"), Call("algoOrder_get", "-")>>
         IN  IF f = "algo" THEN [ret |-> "closed", calls |-> both]
             ELSE [ret |-> IF ord.status \in {"filled", "canceled", "rejected", "expired"}
                           THEN "closed" ELSE "open",
                   calls |-> both]

\* _get_conditional_order_status: 'open', 'closed' or None
_get_conditional_order_status(order_id, ord, f) ==
    IF order_id # "real" THEN [ret |-> "None", calls |-> <<>>]
    ELSE IF f = "primary"
    THEN [ret |-> "None", calls |-> <<Call("fetch_order", "-")>>]
    ELSE IF ord.venue = "primary"
    THEN [ret |-> IF ord.status \in {"filled", "canceled", "rejected"}
                  THEN "closed" ELSE "open",
          calls |-> <<Call("fetch_order", "-")>>]
    ELSE LET both == <<Call("fetch_order", "-"), Call("algoOrder_get", "-")>>
         IN  IF f = "algo" THEN [ret |-> "None", calls |-> both]
             ELSE [ret |-> IF ord.status \in {"filled", "canceled", "rejected", "expired"}
                           THEN "closed" ELSE "open",
                   calls |-> both]

\* the network failures a lookup or a cancel of this order can meet
StatusFails(order_id, ord) ==
    IF order_id # "real" THEN {"none"}
    ELSE IF ord.venue = "algo" THEN QueryFail ELSE {"none", "primary"}

CancelFails(order_id, ord) ==
    IF order_id # "real" THEN {"none"}
    ELSE IF ord.venue = "algo" /\ ord.status = "open" THEN QueryFail
    ELSE {"none", "primary"}

\* what a step tells of one status lookup or one cancel it made: the leg,
\* the id passed, the order as the exchange held it, the network failure met,
\* the value returned and the exchange calls made
Observed(leg, order_id, ord, f, r) ==
    [leg |-> leg, id |-> order_id, ord |-> ord, f |-> f, ret |-> r.ret,
     calls |-> r.calls]

\* the calls a pass makes for one leg of the trade, marked with the leg
ForLeg(r, leg) ==
    [r EXCEPT !.calls = [i \in DOMAIN r.calls |-> [r.calls[i] EXCEPT !.arg = leg]]]

\* -------------------------------------------------------- check_order_status
\* a pass that goes on to the stop-loss whatever the take-profit lookup
\* returned (checked against C30)
TargetNeverClosed(tpChecked, status) == FALSE

\* lines 1222-1229: the take-profit leg is looked up and is closed
TargetClosed(tpChecked, status) == tpChecked /\ status = "closed"

\* the pass of task k for its current symbol is over: next symbol, or sleep.
\* escaped: an exception left check_order_status (line 1300 ends the iteration)
EndPass(k, escaped) ==
    LET rest == IF escaped THEN <<>> ELSE Tail(todo[k])
    IN  /\ todo' = [todo EXCEPT ![k] = rest]
        /\ lpc' = [lpc EXCEPT ![k] = IF rest = <<>> THEN "sleep" ELSE "checking"]

\* lines 1287-1290: the outer except; record_error or append_log raising
\* there leaves check_order_status and ends the iteration (line 1300)
Except(k, D) == EndPass(k, "record_error1289" \in D)

\* active_trades.pop(symbol, None)
Pop(at, sym) == [at EXCEPT ![sym] = 0]

\* lines 1211-1242 and 1254-1290: everything of one pass up to the await of
\* send_notification, or the whole pass when no take-profit leg is closed
Pass(k) ==
    LET sym == Head(todo[k])
        t == active_trades[sym]
        trade == trades[t]
        ords == orders[t]
        tp_id == trade.tp_order_id
        sl_id == trade.sl_order_id
        tpChecked == tp_id = "real" /\ ~trade.tp1_notified
        Counted(cc, leg, c) == IF c.calls # <<>> THEN [cc EXCEPT ![t][leg] = @ + 1]
                               ELSE cc
        EvC(seen, calls, cc, nc) ==
            [NoEv EXCEPT !.op = "pass", !.task = k, !.sym = sym, !.trade = t,
                         !.seen = seen, !.calls = calls, !.sl = sl_id, !.tp = tp_id,
                         !.nsl = cc[t]["sl"], !.ntp = cc[t]["tp"], !.nnotify = nc[t]]
        Ev(seen, calls) == EvC(seen, calls, cancelCalls, notifyCalls)
        Same == UNCHANGED <<ledger, orders, cur>>
    IN
    /\ lpc[k] = "checking"
    /\ todo[k] # <<>>
    /\ UNCHANGED <<config, position, hpc>>
    /\ IF ~Present(sym)
       THEN \* line 1214: key absent
            /\ ev' = [NoEv EXCEPT !.op = "pass", !.task = k, !.sym = sym,
                        !.seen = "absent"]
            /\ EndPass(k, FALSE)
            /\ Same
            /\ UNCHANGED <<dashFails, counters>>
       ELSE
       \E ftp \in (IF tpChecked THEN StatusFails(tp_id, ords.tp) ELSE {"none"}) :
       LET tpq == IF tpChecked
                  THEN ForLeg(_get_conditional_order_status(tp_id, ords.tp, ftp), "tp")
                  ELSE [ret |-> "None", calls |-> <<>>]
       IN
       IF TargetClosed(tpChecked, tpq.ret)
       THEN \E D \in DashChoices({"record_tp1238", "record_error1289"}) :
            IF "record_tp1238" \in D
            THEN /\ ev' = [Ev("tp_closed", tpq.calls) EXCEPT
                             !.raised = TRUE,
                             !.escaped = "record_error1289" \in D]
                 /\ Except(k, D)
                 /\ dashFails' = dashFails + Failures(D)
                 /\ Same
                 /\ UNCHANGED counters
            ELSE \* line 1242: await self.send_notification(message)
                 /\ D = {}
                 /\ ev' = EvC("tp_closed",
                              tpq.calls \o <<Call("send_message", "target")>>,
                              cancelCalls, [notifyCalls EXCEPT ![t] = @ + 1])
                 /\ lpc' = [lpc EXCEPT ![k] = "notify"]
                 /\ cur' = [cur EXCEPT ![k] = [sym |-> sym, trade |-> t]]
                 /\ notifyCalls' = [notifyCalls EXCEPT ![t] = @ + 1]
                 /\ UNCHANGED <<todo, ledger, orders, dashFails, cancelCalls>>
       ELSE
       \E fsl \in StatusFails(sl_id, ords.sl) :
       LET slq == ForLeg(_get_conditional_order_status(sl_id, ords.sl, fsl), "sl")
           qfail == ftp # "none" \/ fsl # "none"
       IN
       IF sl_id # "none" /\ slq.ret = "closed"
       THEN \* lines 1258-1264: stop-loss closed, cancel the take-profit
            \E ctp \in CancelFails(tp_id, ords.tp) :
            \E D \in DashChoices({"log1262", "record_error1289"}) :
            LET tpc == ForLeg(_cancel_conditional_order(tp_id, ords.tp, ctp), "tp")
                calls == tpq.calls \o slq.calls \o tpc.calls
                ord2 == [orders EXCEPT ![t].tp = tpc.ord]
                cc2 == Counted(cancelCalls, "tp", tpc)
            IN  /\ dashFails' = dashFails + Failures(D)
                /\ IF "log1262" \in D
                   THEN /\ ev' = [EvC("sl_closed", calls, cc2, notifyCalls) EXCEPT
                                    !.raised = TRUE, !.qfail = qfail,
                                    !.escaped = "record_error1289" \in D]
                        /\ Except(k, D)
                        /\ Commit(active_trades, key_order, trades, ord2, cur,
                                  cc2, notifyCalls)
                   ELSE /\ D = {}
                        /\ ev' = [EvC("sl_closed", calls, cc2, notifyCalls) EXCEPT
                                    !.removed = t, !.qfail = qfail]
                        /\ EndPass(k, FALSE)
                        /\ Commit(Pop(active_trades, sym), Remove(key_order, sym),
                                  trades, ord2, cur, cc2, notifyCalls)
       ELSE IF dry_run
       THEN \* line 1267: no position check in a dry run
            /\ ev' = [Ev("none", tpq.calls \o slq.calls) EXCEPT !.qfail = qfail]
            /\ EndPass(k, FALSE)
            /\ Same
            /\ UNCHANGED <<dashFails, counters>>
       ELSE
       \E pos \in {"fail", "empty", "listed"} :
       LET fetched == tpq.calls \o slq.calls \o <<Call("fetch_positions", "-")>>
       IN
       IF pos # "listed" \/ position[sym] # 0
       THEN \* nothing resolved the trade
            /\ ev' = [Ev("none", fetched) EXCEPT
                        !.qfail = qfail \/ pos # "listed"]
            /\ EndPass(k, FALSE)
            /\ Same
            /\ UNCHANGED <<dashFails, counters>>
       ELSE \* lines 1275-1283: the position is closed, cancel both legs
            \E csl \in CancelFails(sl_id, ords.sl) :
            \E ctp \in CancelFails(tp_id, ords.tp) :
            \E D \in DashChoices({"log1281"}) :
            LET slc == ForLeg(_cancel_conditional_order(sl_id, ords.sl, csl), "sl")
                tpc == ForLeg(_cancel_conditional_order(tp_id, ords.tp, ctp), "tp")
                calls == fetched \o slc.calls \o tpc.calls
                ord2 == [orders EXCEPT ![t].sl = slc.ord, ![t].tp = tpc.ord]
                cc2 == Counted(Counted(cancelCalls, "sl", slc), "tp", tpc)
            IN  /\ dashFails' = dashFails + Failures(D)
                /\ EndPass(k, FALSE)
                /\ IF "log1281" \in D
                   THEN \* the inner except, line 1284
                        /\ ev' = [EvC("pos_zero", calls, cc2, notifyCalls) EXCEPT
                                    !.raised = TRUE, !.qfail = qfail]
                        /\ Commit(active_trades, key_order, trades, ord2, cur,
                                  cc2, notifyCalls)
                   ELSE /\ ev' = [EvC("pos_zero", calls, cc2, notifyCalls) EXCEPT
                                    !.removed = t, !.qfail = qfail]
                        /\ Commit(Pop(active_trades, sym), Remove(key_order, sym),
                                  trades, ord2, cur, cc2, notifyCalls)

\* lines 1243-1252: the await of send_notification is over; an exception
\* leaving it would end the pass in the outer except block (line 1287)
Resume(k) ==
    LET sym == cur[k].sym
        t == cur[k].trade
        trade == trades[t]
        sl_id == trade.sl_order_id
        Ev(seen, calls, cc) ==
            [NoEv EXCEPT !.op = "resume", !.task = k, !.sym = sym, !.trade = t,
                         !.seen = seen, !.calls = calls, !.sl = sl_id,
                         !.tp = trade.tp_order_id, !.nsl = cc[t]["sl"],
                         !.ntp = cc[t]["tp"], !.nnotify = notifyCalls[t]]
        tr2 == [trades EXCEPT ![t].tp1_notified = TRUE]
        cu2 == [cur EXCEPT ![k] = NoCur]
    IN
    /\ lpc[k] = "notify"
    /\ NoOtherRunning(k)
    /\ UNCHANGED <<config, position, hpc>>
    /\ \E sent \in SinkOutcomes :
       IF send_notification(sent) = "raised"
       THEN /\ ev' = [Ev("tp_closed", <<>>, cancelCalls) EXCEPT
                        !.raised = TRUE, !.sink = sent]
            /\ Except(k, {})
            /\ Commit(active_trades, key_order, trades, orders, cu2,
                      cancelCalls, notifyCalls)
            /\ UNCHANGED dashFails
       ELSE
       \E csl \in CancelFails(sl_id, orders[t].sl) :
       \E D \in DashChoices(IF sl_id # "none" THEN {"log1250", "record_error1289"}
                            ELSE {}) :
       LET slc == ForLeg(_cancel_conditional_order(sl_id, orders[t].sl, csl), "sl")
           ord2 == [orders EXCEPT ![t].sl = slc.ord]
           cc2 == IF slc.calls # <<>>
                  THEN [cancelCalls EXCEPT ![t]["sl"] = @ + 1]
                  ELSE cancelCalls
       IN  /\ dashFails' = dashFails + Failures(D)
           /\ IF "log1250" \in D
              THEN /\ ev' = [Ev("tp_closed", slc.calls, cc2) EXCEPT
                               !.raised = TRUE, !.sink = sent,
                               !.escaped = "record_error1289" \in D]
                   /\ Except(k, D)
                   /\ Commit(active_trades, key_order, tr2, ord2, cu2,
                             cc2, notifyCalls)
              ELSE /\ D = {}
                   /\ ev' = [Ev("tp_closed", slc.calls, cc2) EXCEPT
                               !.removed = active_trades[sym], !.sink = sent]
                   /\ EndPass(k, FALSE)
                   /\ Commit(Pop(active_trades, sym), Remove(key_order, sym),
                             tr2, ord2, cu2, cc2, notifyCalls)

\* ------------------------------------------------------ periodic_order_check
\* asyncio.sleep(30) returned: snapshot list(active_trades.keys())
Wake(k) ==
    /\ k \in started
    /\ lpc[k] = "sleep"
    /\ NoOtherRunning(k)
    /\ key_order # <<>>
    /\ todo' = [todo EXCEPT ![k] = key_order]
    /\ lpc' = [lpc EXCEPT ![k] = "checking"]
    /\ ev' = [NoEv EXCEPT !.op = "wake", !.task = k]
    /\ UNCHANGED <<config, ledger, exchange, hpc, cur, dashFails, counters>>

\* ------------------------------------------------------------- the exchange
\* an open conditional order triggers: it closes (part of) the position, or
\* expires when there is no position left to reduce
Trigger(t, leg) ==
    LET s == trades[t].sym
    IN  /\ orders[t][leg].status = "open"
        /\ IF position[s] > 0
           THEN /\ orders' = [orders EXCEPT ![t] =
                                 Known(t, [@ EXCEPT ![leg].status = "filled"], trades[t])]
                /\ position' = [position EXCEPT ![s] = @ - 1]
           ELSE /\ orders' = [orders EXCEPT ![t] =
                                 Known(t, [@ EXCEPT ![leg].status = "expired"], trades[t])]
                /\ UNCHANGED position
        /\ ev' = [NoEv EXCEPT !.op = "exchange"]
        /\ UNCHANGED <<config, ledger, hpc, loops, dashFails, counters>>

\* the position is closed by hand, liquidated, or closed by an order the
\* program holds no id of
ClosePosition(s) ==
    /\ position[s] > 0
    /\ position' = [position EXCEPT ![s] = 0]
    /\ ev' = [NoEv EXCEPT !.op = "exchange"]
    /\ UNCHANGED <<config, ledger, orders, hpc, loops, dashFails, counters>>

\* ----------------------------------------------------------- start_listening
\* a start_listening that creates a loop task per call and per chat check
\* (checked against C16)
CreatedTwice(chat) == LoopTasks

\* line 1355: the task start_listening creates with asyncio.create_task
CreatedTasks(chat) == IF chat THEN {1} ELSE {}

\* lines 1346-1363: register new_message_handler and create the loop task.
\* main awaits start_listening once (line 1447) and exits when it returns.
StartListening ==
    /\ hpc = "off"
    /\ hpc' = "idle"
    /\ started' = started \cup CreatedTasks(notification_chat_id)
    /\ ev' = [NoEv EXCEPT !.op = "start"]
    /\ UNCHANGED <<dry_run, notification_chat_id, ledger, exchange, loops,
                   dashFails, counters>>

\* ------------------------------------------------------------------- system
InitCommon ==
    /\ dry_run \in BOOLEAN
    /\ active_trades = [s \in Symbols |-> 0]
    /\ key_order = <<>>
    /\ trades = [t \in TradeIds |-> NoTrade]
    /\ orders = [t \in TradeIds |-> NoOrders]
    /\ position = [s \in Symbols |-> 0]
    /\ hpc = "off"
    /\ lpc = [k \in LoopTasks |-> "sleep"]
    /\ todo = [k \in LoopTasks |-> <<>>]
    /\ cur = [k \in LoopTasks |-> NoCur]
    /\ cancelCalls = [t \in TradeIds |-> [l \in Legs |-> 0]]
    /\ notifyCalls = [t \in TradeIds |-> 0]
    /\ ev = NoEv

\* main, lines 1432-1443: the trader and the listener are constructed
Init ==
    /\ InitCommon
    /\ notification_chat_id \in BOOLEAN
    /\ started = {}
    /\ dashFails = 0

Next ==
    \/ StartListening
    \/ \E marker \in BOOLEAN : Receive(marker)
    \/ AfterForward
    \/ HandlerNotified
    \/ \E k \in LoopTasks : Wake(k)
    \/ \E k \in LoopTasks : Pass(k)
    \/ \E k \in LoopTasks : Resume(k)
    \/ \E t \in TradeIds : \E leg \in Legs : Trigger(t, leg)
    \/ \E s \in Symbols : ClosePosition(s)

Spec == Init /\ [][Next]_vars

\* check_order_status entered by two tasks at once: a second
\* periodic_order_check (task 2) iterates the same ledger.  start_listening
\* creates one such task; this specification is the harness for the
\* statements about concurrent passes.
InitConc ==
    /\ InitCommon
    /\ notification_chat_id = TRUE
    /\ started = {2}
    /\ dashFails = MaxDashFail

SpecConc == InitConc /\ [][Next]_vars

\* The event loop runs every task that is ready: start_listening is awaited by
\* main, asyncio.sleep(30) returns, a pass that was called runs to its next
\* await, and an awaited send_notification returns.
LoopFairness ==
    /\ WF_vars(StartListening)
    /\ \A k \in LoopTasks :
          WF_vars(Wake(k)) /\ WF_vars(Pass(k)) /\ WF_vars(Resume(k))

SpecLive == Init /\ [][Next]_vars /\ LoopFairness

\* ---------------------------------------------- an iteration over two symbols
\* The reconciliation loop alone, from a ledger that holds a trade of each
\* symbol with both legs placed (two signals executed, every call having
\* succeeded), while no further message arrives.
InitIter ==
    /\ dry_run = FALSE
    /\ notification_chat_id = TRUE
    /\ started = CreatedTasks(TRUE)
    /\ hpc = "idle"
    /\ active_trades = [s \in Symbols |-> s]
    /\ key_order = <<1, 2>>
    /\ trades = [t \in TradeIds |->
                    IF t \in Symbols
                    THEN [sym |-> t, sl_order_id |-> "real", tp_order_id |-> "real",
                          tp1_notified |-> FALSE]
                    ELSE NoTrade]
    /\ \E v \in Venues :
          orders = [t \in TradeIds |->
                       IF t \in Symbols
                       THEN [sl |-> [venue |-> v, status |-> "open"],
                             tp |-> [venue |-> v, status |-> "open"]]
                       ELSE NoOrders]
    /\ position = [s \in Symbols |-> 1]
    /\ lpc = [k \in LoopTasks |-> "sleep"]
    /\ todo = [k \in LoopTasks |-> <<>>]
    /\ cur = [k \in LoopTasks |-> NoCur]
    /\ cancelCalls = [t \in TradeIds |-> [l \in Legs |-> 0]]
    /\ notifyCalls = [t \in TradeIds |-> 0]
    /\ dashFails = 0
    /\ ev = NoEv

NextIter ==
    \/ \E k \in LoopTasks : Wake(k)
    \/ \E k \in LoopTasks : Pass(k)
    \/ \E k \in LoopTasks : Resume(k)
    \/ \E t \in TradeIds : \E leg \in Legs : Trigger(t, leg)
    \/ \E s \in Symbols : ClosePosition(s)

SpecIter == InitIter /\ [][NextIter]_vars

\* ------------------------------------------------- the orders of one signal
\* What execute_signal and its placers hand to the exchange client for one
\* signal.  Quantities are in 1/QtyScale; a price is the fraction num/den.
\* the calls that submit an order
OrderApis == {"create_market_order", "create_order", "algoOrder_post"}
ConditionalTypes == {"STOP_MARKET", "TAKE_PROFIT_MARKET"}

Submitted(calls) == SelectSeq(calls, LAMBDA c : c.api \in OrderApis)

Price(num, den) == [num |-> num, den |-> den]
NoPrice == Price(0, 1)

\* the precision of a symbol's market: the quantity step in 1/QtyScale and
\* the number of price ticks in one unit of price
AmountSteps == {1, 10, 1000}
TicksPerUnit == {1, 10, 100}
Markets == {[step |-> st, ticks |-> tk] : st \in AmountSteps, tk \in TicksPerUnit}

\* exchange.amount_to_precision: truncated to the quantity step
amount_to_precision(market, quantity) == (quantity \div market.step) * market.step

\* exchange.price_to_precision: rounded to the nearest price tick
price_to_precision(market, price) ==
    Price((2 * price.num * market.ticks + price.den) \div (2 * price.den), market.ticks)

\* a stop price on the same side of the entry for both directions (checked
\* against C28)
StopBelowEntry(direction, entry_price, leverage) ==
    Price(entry_price * (100 * leverage - 170 * LevScale), 100 * leverage)

\* lines 470-475: entry_price * (1 - 1.70 / leverage) for a long,
\* entry_price * (1 + 1.70 / leverage) for a short; leverage in 1/LevScale
sl_price(direction, entry_price, leverage) ==
    IF direction = "BUY"
    THEN Price(entry_price * (100 * leverage - 170 * LevScale), 100 * leverage)
    ELSE Price(entry_price * (100 * leverage + 170 * LevScale), 100 * leverage)

\* lines 332, 480 and 555: the side of the entry and the side that closes it
EntrySide(direction) == IF direction = "BUY" THEN "buy" ELSE "sell"
CloseSide(direction) == IF direction = "BUY" THEN "sell" ELSE "buy"

Request(api, type, side, amount, price, reduceOnly) ==
    [api |-> api, type |-> type, side |-> side, amount |-> amount,
     price |-> price, reduceOnly |-> reduceOnly]

\* algo parameters with the quantity and the trigger price as computed
\* (checked against C29)
AlgoParamsRaw(market, side, type, quantity, trigger_price) ==
    Request("algoOrder_post", type, side, quantity, trigger_price, TRUE)

\* _place_algo_conditional_order, lines 375-387: the parameters of the raw
\* request, quantity and triggerPrice formatted to the market's precision
AlgoParams(market, side, type, quantity, trigger_price) ==
    Request("algoOrder_post", type, side, amount_to_precision(market, quantity),
            price_to_precision(market, trigger_price), TRUE)

\* the arguments of the order-submitting call c of an execute_signal run for
\* signal with the quantity position_size (lines 340-344, 490-500, 505-507,
\* 565-575, 580-582)
RequestOf(c, signal, position_size, market) ==
    LET trigger == IF c.arg = "STOP_MARKET"
                   THEN sl_price(signal.direction, signal.entry_price, signal.leverage)
                   ELSE Price(signal.targets[1], 1)
    IN  IF c.api = "create_market_order"
        THEN Request(c.api, "MARKET", EntrySide(signal.direction), position_size,
                     NoPrice, FALSE)
        ELSE IF c.api = "create_order"
        THEN Request(c.api, c.arg, CloseSide(signal.direction), position_size,
                     trigger, TRUE)
        ELSE AlgoParams(market, CloseSide(signal.direction), c.arg, position_size,
                        trigger)

\* what reaches the exchange: the client formats the amount and the stop
\* price of create_market_order and create_order to the market's precision;
\* the raw algo request goes out as the program built it
Sent(market, request) ==
    IF request.api = "algoOrder_post" THEN request
    ELSE [request EXCEPT !.amount = amount_to_precision(market, @),
                         !.price = price_to_precision(market, @)]

\* line 633: int(signal.leverage), what set_leverage sends to the exchange
IntLeverage(leverage) == (leverage \div LevScale) * LevScale

OrderDirections == {"BUY", "SELL"}
\* leverages 1, 3, 10 and 12.5, in 1/LevScale
OrderLeverages == {2, 6, 20, 25}
OrderEntryPrices == {7, 100}
OrderBalances == {-1, 0, 333, 1000}

OrderSignals ==
    {[kind |-> "signal", direction |-> d, symbol |-> s, leverage |-> l,
      entry_price |-> e, targets |-> <<IF d = "BUY" THEN e + 10 ELSE e - 3>>] :
        d \in OrderDirections, s \in SignalSymbols, l \in OrderLeverages,
        e \in OrderEntryPrices}

\* a parsed signal is about to be executed in a live run, on a market of
\* some precision
InitOrders ==
    /\ dry_run = FALSE
    /\ notification_chat_id = FALSE
    /\ started = {}
    /\ hpc = "idle"
    /\ active_trades = [s \in Symbols |-> 0]
    /\ key_order = <<>>
    /\ trades = [t \in TradeIds |-> NoTrade]
    /\ orders = [t \in TradeIds |-> NoOrders]
    /\ position = [s \in Symbols |-> 0]
    /\ lpc = [k \in LoopTasks |-> "sleep"]
    /\ todo = [k \in LoopTasks |-> <<>>]
    /\ cur = [k \in LoopTasks |-> NoCur]
    /\ cancelCalls = [t \in TradeIds |-> [l \in Legs |-> 0]]
    /\ notifyCalls = [t \in TradeIds |-> 0]
    /\ dashFails = 0
    /\ \E signal \in OrderSignals, market \in Markets :
          ev = [NoEv EXCEPT !.op = "signal",
                           !.obs = <<[signal |-> signal, market |-> market,
                                      leverage_set |-> 0, position_size |-> 0,
                                      requests |-> <<>>]>>]

\* execute_signal(signal) as far as the exchange sees it: the quantity and
\* the requests of the order-submitting calls it makes, for every balance and
\* every outcome of the placements
OrdersCall ==
    /\ ev.op = "signal"
    /\ LET signal == ev.obs[1].signal
           market == ev.obs[1].market
       IN  \E b \in OrderBalances, sl \in PlacementPairs, tp \in PlacementPairs :
             LET size == calculate_position_size(b, signal.entry_price,
                                                 signal.leverage)
                 \* amount_to_precision raises for an amount below the step:
                 \* the entry order fails
                 sendable == b <= 0 \/ size <= 0
                                \/ amount_to_precision(market, size) > 0
                 x == [DefaultInput EXCEPT !.bal = b, !.mkt = sendable,
                                           !.slP = sl[1], !.slA = sl[2],
                                           !.tpP = tp[1], !.tpA = tp[2]]
                 r == execute_signal(signal, dry_run, x)
                 sub == Submitted(r.calls)
             IN  /\ Consumed(x, r.used, r.points)
                 /\ ev' = [NoEv EXCEPT
                             !.op = "orders", !.sym = signal.symbol, !.x = x,
                             !.ret = r.ret, !.abort = r.abort, !.calls = r.calls,
                             !.obs = <<[signal |-> signal, market |-> market,
                                        leverage_set |-> IntLeverage(signal.leverage),
                                        position_size |-> r.position_size,
                                        requests |->
                                           [i \in DOMAIN sub |->
                                              RequestOf(sub[i], signal,
                                                        r.position_size, market)]]>>]
    /\ UNCHANGED <<config, ledger, exchange, hpc, loops, dashFails, counters>>

NextOrders == OrdersCall

SpecOrders == InitOrders /\ [][NextOrders]_vars

\* ------------------------------------------------ the parser on message texts
\* What the regular expressions of parse_signal find in a text: the direction
\* marker, the symbol after 'Name:', the leverage after 'Margin mode: Cross (',
\* the entry price, and the prices of the numbered target lines in the order
\* of the text.  Absent: re.search found nothing.
Absent == -1
TargetPrices == {90, 110, 120}
SeqsUpTo(S, n) == UNION {[1..m -> S] : m \in 0..n}

Texts ==
    {[marker |-> d, symbol |-> s, leverage |-> l, entry |-> e, found |-> f] :
        d \in {"none", "long", "short"}, s \in {0} \cup SignalSymbols,
        l \in {Absent} \cup Leverages, e \in {Absent} \cup EntryPrices,
        f \in SeqsUpTo(TargetPrices, MaxTargets)}

\* every field parse_signal needs is in the text
Complete(text) ==
    /\ text.marker # "none"
    /\ text.symbol # 0
    /\ text.leverage # Absent
    /\ text.entry # Absent
    /\ text.found # <<>>

\* SignalParser.parse_signal, lines 108-189: the TradingSignal, or None
\* (NoMsg) when a field is missing or when record_signal / append_log raises
SignalParser(text, D) ==
    IF text.marker = "none" THEN NoMsg
    ELSE IF text.symbol = 0 THEN NoMsg
    ELSE IF text.leverage = Absent THEN NoMsg
    ELSE IF text.entry = Absent THEN NoMsg
    ELSE IF text.found = <<>> THEN NoMsg
    ELSE
      LET direction == IF text.marker = "long" THEN "BUY" ELSE "SELL"
          targets == IF direction = "BUY"
                     THEN SortSeq(text.found, LAMBDA a, b : a < b)
                     ELSE SortSeq(text.found, LAMBDA a, b : a > b)
          signal == [kind |-> "signal", direction |-> direction,
                     symbol |-> text.symbol, leverage |-> text.leverage,
                     entry_price |-> text.entry, targets |-> SubSeq(targets, 1, 1)]
      IN  IF "record_signal169" \in D THEN NoMsg ELSE signal

\* a text is about to be handed to the parser
InitParse ==
    /\ dry_run = FALSE
    /\ notification_chat_id = FALSE
    /\ started = {}
    /\ hpc = "idle"
    /\ active_trades = [s \in Symbols |-> 0]
    /\ key_order = <<>>
    /\ trades = [t \in TradeIds |-> NoTrade]
    /\ orders = [t \in TradeIds |-> NoOrders]
    /\ position = [s \in Symbols |-> 0]
    /\ lpc = [k \in LoopTasks |-> "sleep"]
    /\ todo = [k \in LoopTasks |-> <<>>]
    /\ cur = [k \in LoopTasks |-> NoCur]
    /\ cancelCalls = [t \in TradeIds |-> [l \in Legs |-> 0]]
    /\ notifyCalls = [t \in TradeIds |-> 0]
    /\ dashFails = 0
    /\ \E text \in Texts :
          ev = [NoEv EXCEPT !.op = "text",
                           !.obs = <<[text |-> text, D |-> {}, ret |-> NoMsg]>>]

\* one call of parse_signal(message_text) on the text; the same text can be
\* parsed again
ParseCall ==
    LET text == ev.obs[1].text
    IN  \E D \in DashChoices(IF Complete(text) THEN ParseDashPoints ELSE {}) :
          /\ ev' = [NoEv EXCEPT !.op = "parse",
                       !.obs = <<[text |-> text, D |-> D,
                                  ret |-> SignalParser(text, D)]>>]
          /\ dashFails' = dashFails + Failures(D)
          /\ UNCHANGED <<config, ledger, exchange, hpc, loops, counters>>

NextParse == ParseCall

SpecParse == InitParse /\ [][NextParse]_vars

\* ------------------------------------------- the cancel and the lookup alone
\* _cancel_conditional_order and _get_conditional_order_status applied to
\* every order the exchange can hold under an id, in every state it can be in.
ExchangeOrders == {[venue |-> v, status |-> st] : v \in Venues, st \in Statuses}

\* the ids a trade dict can hold for a leg, and the order behind each
LegIds(dry) == IF dry THEN {"dry"} ELSE {"none", "real"}
OrdersOf(order_id) == IF order_id = "real" THEN ExchangeOrders ELSE {NoOrder}

InitCalls ==
    /\ dry_run \in BOOLEAN
    /\ notification_chat_id = FALSE
    /\ started = {}
    /\ hpc = "off"
    /\ active_trades = [s \in Symbols |-> IF s \in SignalSymbols THEN s ELSE 0]
    /\ key_order = <<1>>
    /\ \E sl_id \in LegIds(dry_run), tp_id \in LegIds(dry_run) :
          /\ trades = [t \in TradeIds |->
                          IF t \in SignalSymbols
                          THEN [sym |-> t, sl_order_id |-> sl_id,
                                tp_order_id |-> tp_id, tp1_notified |-> FALSE]
                          ELSE NoTrade]
          /\ \E o1 \in OrdersOf(sl_id), o2 \in OrdersOf(tp_id) :
                orders = [t \in TradeIds |->
                             IF t \in SignalSymbols THEN [sl |-> o1, tp |-> o2]
                             ELSE NoOrders]
    /\ position = [s \in Symbols |-> 0]
    /\ lpc = [k \in LoopTasks |-> "sleep"]
    /\ todo = [k \in LoopTasks |-> <<>>]
    /\ cur = [k \in LoopTasks |-> NoCur]
    /\ cancelCalls = [t \in TradeIds |-> [l \in Legs |-> 0]]
    /\ notifyCalls = [t \in TradeIds |-> 0]
    /\ dashFails = 0
    /\ ev = NoEv

IdOf(trade, leg) == IF leg = "sl" THEN trade.sl_order_id ELSE trade.tp_order_id

\* one call of _cancel_conditional_order(symbol, order_id)
CancelCall(t, leg) ==
    LET order_id == IdOf(trades[t], leg)
        ord == orders[t][leg]
    IN  \E f \in CancelFails(order_id, ord) :
          LET r == _cancel_conditional_order(order_id, ord, f)
          IN  /\ orders' = [orders EXCEPT ![t][leg] = r.ord]
              /\ ev' = [NoEv EXCEPT !.op = "cancel", !.sym = t, !.calls = r.calls,
                                   !.obs = <<Observed(leg, order_id, ord, f, r)>>]
              /\ UNCHANGED <<config, ledger, position, hpc, loops, dashFails,
                             counters>>

\* one call of _get_conditional_order_status(symbol, order_id)
StatusCall(t, leg) ==
    LET order_id == IdOf(trades[t], leg)
        ord == orders[t][leg]
    IN  \E f \in StatusFails(order_id, ord) :
          LET r == _get_conditional_order_status(order_id, ord, f)
          IN  /\ ev' = [NoEv EXCEPT !.op = "status", !.sym = t, !.calls = r.calls,
                                   !.obs = <<Observed(leg, order_id, ord, f, r)>>]
              /\ UNCHANGED <<config, ledger, exchange, hpc, loops, dashFails,
                             counters>>

NextCalls ==
    \/ \E t \in SignalSymbols, leg \in Legs : CancelCall(t, leg)
    \/ \E t \in SignalSymbols, leg \in Legs : StatusCall(t, leg)

SpecCalls == InitCalls /\ [][NextCalls]_vars

\* =============================================================== properties
\* ev holds what the last step did: the exchange and Telegram calls it made
\* in order, the outcomes x it met, what execute_signal returned (ret), whether
\* the entry order was placed (entry), the ids the placers returned (sl, tp),
\* whether the ledger held the symbol before (had) and was written (stored);
\* for a pass the dict it read (trade), what it found (seen), whether it ended
\* in an except block (raised), the dict it removed from the ledger (removed)
\* and the calls made so far for that dict (nsl, ntp, nnotify).

\* exchange calls that submit an order, and the conditional order types
LegOrders(calls, type) ==
    SelectSeq(calls, LAMBDA c : c.api \in OrderApis /\ c.arg = type)
AlgoPosts(calls, type) ==
    SelectSeq(calls, LAMBDA c : c = Call("algoOrder_post", type))
BothAttempts(type) == <<Call("create_order", type), Call("algoOrder_post", type)>>

\* the pass of which ev tells has found the take-profit leg closed and is over
TpPassOver ==
    /\ ev.op \in {"pass", "resume"}
    /\ ev.seen = "tp_closed"
    /\ ev.op = "resume" \/ ev.raised

\* C1 (as stated): a pass that found the take-profit leg of a symbol's
\* ActiveTrade closed has issued the stop-loss cancellation exactly once and
\* removed the ActiveTrade when it is over; a pass for a symbol that is no key
\* of the ledger makes no call.
C1_TpClosedCancelsOnceAndRemoves ==
    /\ TpPassOver =>
          /\ active_trades[ev.sym] = 0
          /\ ev.sl = "real" => ev.nsl = 1
    /\ (ev.op = "pass" /\ ev.seen = "absent") => ev.calls = <<>>

\* C2: when the market entry order fails, execute_signal returns failure,
\* submits no stop-loss and no take-profit order, and neither creates nor
\* modifies an entry of the ledger.
C2_EntryFailureAborts ==
    [][(ev'.op = "execute" /\ ev'.entry = "fail")
          => /\ ev'.ret = "fail"
             /\ \A i \in DOMAIN ev'.calls : ev'.calls[i].arg \notin ConditionalTypes
             /\ UNCHANGED ledger]_vars

\* the entry order failed while the ledger held a trade of the symbol
C2_Witness ==
    /\ ev.op = "execute"
    /\ ev.entry = "fail"
    /\ ev.calls[Len(ev.calls)] = Call("create_market_order", "MARKET")
    /\ Present(ev.sym)

\* C3 (as stated): whenever the market entry order is placed, execute_signal
\* returns success and the ledger holds an ActiveTrade of the signal's symbol.
C3_EntryImpliesTradeRecorded ==
    (ev.op = "execute" /\ ev.entry = "ok")
        => /\ ev.ret = "ok"
           /\ ev.stored
           /\ Present(ev.sym)

\* C4 (as stated): when the stop-loss placement fails on the primary and on
\* the algo endpoint, execute_signal still attempts the take-profit and
\* records an ActiveTrade whose sl_order_id is absent.
C4_TradeRecordedWithoutStop ==
    (ev.op = "execute" /\ ev.entry = "ok"
        /\ LegOrders(ev.calls, "STOP_MARKET") = BothAttempts("STOP_MARKET")
        /\ ev.x.slA = "fail")
        => /\ LegOrders(ev.calls, "TAKE_PROFIT_MARKET") # <<>>
           /\ ev.stored
           /\ trades[active_trades[ev.sym]].sl_order_id = "none"

\* C5: when set_leverage fails, or the balance fetch fails or gives a
\* non-positive balance, or the computed quantity is non-positive,
\* execute_signal returns failure, submits no order of any kind and leaves
\* the ledger unchanged.
C5_PrecheckFailureAborts ==
    [][(ev'.op = "execute" /\ (~ev'.x.lev \/ ev'.x.bal <= 0 \/ ev'.abort = "quantity"))
          => /\ ev'.ret = "fail"
             /\ Submitted(ev'.calls) = <<>>
             /\ UNCHANGED ledger]_vars

\* set_leverage failed while the ledger held a trade of the symbol
C5_Witness ==
    /\ ev.op = "execute"
    /\ ~ev.x.lev
    /\ ev.calls = <<Call("set_leverage", "-")>>
    /\ Present(ev.sym)

\* the leg of type was rejected with -4120 and the algo endpoint accepted it
FallbackAccepted(type, pName, aName) ==
    /\ ev.op = "execute"
    /\ LegOrders(ev.calls, type) = BothAttempts(type)
    /\ ev.x[pName] = "e4120"
    /\ ev.x[aName] = "ok"

\* C6 (as stated): after a -4120 rejection the algo endpoint is called
\* exactly once for the leg, and the id it returns is the id the placer
\* returns and the id recorded for the leg in the ActiveTrade.
C6_FallbackIdIsTheLegId ==
    /\ ev.op = "execute" =>
          /\ ev.x.slP = "e4120" => Len(AlgoPosts(ev.calls, "STOP_MARKET")) = 1
          /\ ev.x.tpP = "e4120" => Len(AlgoPosts(ev.calls, "TAKE_PROFIT_MARKET")) = 1
    /\ FallbackAccepted("STOP_MARKET", "slP", "slA") =>
          /\ ev.sl = "real"
          /\ ev.stored => trades[active_trades[ev.sym]].sl_order_id = "real"
    /\ FallbackAccepted("TAKE_PROFIT_MARKET", "tpP", "tpA") =>
          /\ ev.tp = "real"
          /\ ev.stored => trades[active_trades[ev.sym]].tp_order_id = "real"

\* the leg of type was refused by the primary and by the algo endpoint
BothRefused(type, pName, aName) ==
    /\ ev.op = "execute"
    /\ ev.entry = "ok"
    /\ ~dry_run
    /\ ev.x[pName] = "e4120"
    /\ ev.x[aName] = "fail"

\* C7: the only order that is not a conditional order is the one market
\* entry order of an execute_signal run; a leg refused by both endpoints is
\* abandoned with no order id after exactly those two attempts.
C7_OnlyTheEntryIsUnconditional ==
    /\ \A i \in DOMAIN ev.calls :
          ev.calls[i].api \in OrderApis =>
             /\ ev.op = "execute"
             /\ \/ ev.calls[i].arg \in ConditionalTypes
                \/ /\ ev.calls[i] = Call("create_market_order", "MARKET")
                   /\ \A j \in 1..(i - 1) : ev.calls[j].api \notin OrderApis
    /\ BothRefused("STOP_MARKET", "slP", "slA") =>
          /\ ev.sl = "none"
          /\ LegOrders(ev.calls, "STOP_MARKET") = BothAttempts("STOP_MARKET")
    /\ BothRefused("TAKE_PROFIT_MARKET", "tpP", "tpA") =>
          /\ ev.tp = "none"
          /\ LegOrders(ev.calls, "TAKE_PROFIT_MARKET") = BothAttempts("TAKE_PROFIT_MARKET")

\* both legs were refused by both endpoints and the trade was recorded
C7_Witness ==
    /\ BothRefused("STOP_MARKET", "slP", "slA")
    /\ BothRefused("TAKE_PROFIT_MARKET", "tpP", "tpA")
    /\ ev.stored
    /\ Len(Submitted(ev.calls)) = 5

C9_RemovedByItsObserver ==
    ev.removed # 0 => ev.removed = ev.trade

\* C10 (as stated): execute_signal for a symbol that is a key of the ledger
\* places no entry order and does not replace the ledger entry.
C10_NoReopenWhileActive ==
    (ev.op = "execute" /\ ev.had) => (ev.entry = "none" /\ ~ev.stored)

\* a leg whose id the ledger's trade of symbol s holds has filled
LegFilled(s) ==
    /\ Present(s)
    /\ \/ /\ trades[active_trades[s]].sl_order_id = "real"
          /\ orders[active_trades[s]].sl.status = "filled"
       \/ /\ trades[active_trades[s]].tp_order_id = "real"
          /\ orders[active_trades[s]].tp.status = "filled"

\* a pass has just removed the trade of symbol s, having sent a cancel for
\* every other leg whose id the trade holds
CleanedUp(s) ==
    /\ ev.op \in {"pass", "resume"}
    /\ ev.sym = s
    /\ ev.removed # 0
    /\ ~Present(s)
    /\ (ev.seen \in {"tp_closed", "pos_zero"} /\ ev.sl = "real") => ev.nsl >= 1
    /\ (ev.seen \in {"sl_closed", "pos_zero"} /\ ev.tp = "real") => ev.ntp >= 1

\* C11 (as stated): when no status lookup and no position fetch fails, a
\* filled take-profit or stop-loss leg of the ledger's trade leads to a pass
\* that removes the trade after a cancel of every sibling order it holds.
C11_ClosedLegLeadsToCleanup ==
    ([]~ev.qfail) => \A s \in Symbols : LegFilled(s) ~> CleanedUp(s)

\* C12 (as stated): once start_listening has run, a reconciliation loop task
\* exists whether or not a notification chat is configured, and an iteration
\* starts from every key the ledger holds at that moment.
C12_LoopRunsInEveryConfiguration ==
    /\ hpc # "off" => started # {}
    /\ ev.op = "wake" => todo[ev.task] = key_order

\* the calls of cancel_order a step made
CancelsSent(calls) == Len(SelectSeq(calls, LAMBDA c : c.api = "cancel_order"))

\* C13 (as stated): a pass in which no take-profit resolved the trade and
\* the stop-loss is reported closed sends a cancel for the take-profit leg
\* if the trade holds its id, and removes the trade of the symbol.
C13_StopClosedCancelsTargetsAndRemoves ==
    (ev.op = "pass" /\ ev.seen = "sl_closed")
        => /\ ev.tp = "real" => CancelsSent(ev.calls) = 1
           /\ ~Present(ev.sym)

\* C14 (as stated): a pass in which neither leg resolved the trade and the
\* exchange lists the symbol's position with size zero sends a cancel for
\* every leg whose id the trade holds and removes the trade, also when the
\* trade holds no id.
C14_ZeroPositionCancelsAllAndRemoves ==
    (ev.op = "pass" /\ ev.seen = "pos_zero")
        => /\ CancelsSent(ev.calls) =
                 (IF ev.sl = "real" THEN 1 ELSE 0) + (IF ev.tp = "real" THEN 1 ELSE 0)
           /\ ~Present(ev.sym)

\* C16: at most one reconciliation loop task exists.
C16_OneLoopTask ==
    Cardinality(started) <= 1

\* the loop task exists and has finished a pass
C16_Witness ==
    /\ started = {1}
    /\ ev.op = "pass"
    /\ ev.task = 1

\* calls that go to Telegram, not to the exchange
TelegramApis == {"send_message", "forward_messages"}

\* C17 (as stated): in a dry run no step contacts the exchange, and
\* execute_signal of a signal that sizes to a positive quantity returns
\* success with the synthetic ids and records the trade.
C17_DryRunShortCircuits ==
    dry_run =>
        /\ \A i \in DOMAIN ev.calls : ev.calls[i].api \in TelegramApis
        /\ (ev.op = "execute" /\ ev.abort # "quantity")
              => /\ ev.ret = "ok"
                 /\ ev.sl = "dry" /\ ev.tp = "dry"
                 /\ ev.stored /\ Present(ev.sym)

\* the call of which ev tells
TheCall == ev.obs[1]

\* C18 (as stated): a cancel of an order that is already filled, canceled or
\* rejected returns success when no network error occurs, and so does a
\* cancel of the id a cancel has just succeeded on.
C18_CancelOfGoneOrderSucceeds ==
    [][(ev'.op = "cancel" /\ ev'.obs[1].f = "none")
          => /\ ev'.obs[1].ord.status \in {"filled", "canceled", "rejected"}
                   => ev'.obs[1].ret
             /\ (ev.op = "cancel" /\ ev.obs[1].leg = ev'.obs[1].leg /\ ev.obs[1].ret)
                   => ev'.obs[1].ret]_vars

\* C19: a cancel of a real id calls cancel_order first; it calls the algo
\* delete, once, exactly when cancel_order failed with an 'unknown order'
\* error; it returns success iff one of the two calls succeeded, and then the
\* order is no longer open.  A missing or synthetic id makes no call.
C19_CancelFallsBackToAlgoOnce ==
    ev.op = "cancel" =>
        LET p == PrimaryCancel(TheCall.ord, TheCall.f)
            a == AlgoCancel(TheCall.ord, TheCall.f)
            primary == <<Call("cancel_order", "-")>>
            algo == <<Call("algoOrder_delete", "-")>>
        IN  IF TheCall.id # "real"
            THEN TheCall.calls = <<>> /\ TheCall.ret
            ELSE /\ TheCall.calls = IF p = "unknown" THEN primary \o algo ELSE primary
                 /\ TheCall.ret <=> (p = "ok" \/ (p = "unknown" /\ a = "ok"))
                 /\ TheCall.ret => orders[ev.sym][TheCall.leg].status = "canceled"

\* an open algo order was cancelled through the algo delete
C19_Witness ==
    /\ ev.op = "cancel"
    /\ TheCall.ord = [venue |-> "algo", status |-> "open"]
    /\ TheCall.ret
    /\ Len(TheCall.calls) = 2
    /\ orders[ev.sym][TheCall.leg].status = "canceled"

\* C20 (as stated): a lookup that meets no network error returns 'closed'
\* for an order that is filled, canceled, rejected or expired, in the primary
\* and in the algo system, and 'open' for any other; the algo lookup is made
\* only after fetch_order failed with an 'unknown order' error.
C20_ClosedCoversExpired ==
    (ev.op = "status" /\ TheCall.id = "real")
        => /\ TheCall.f = "none" =>
                 TheCall.ret = IF TheCall.ord.status \in
                                     {"filled", "canceled", "rejected", "expired"}
                               THEN "closed" ELSE "open"
           /\ Call("algoOrder_get", "-") \in {TheCall.calls[i] : i \in DOMAIN TheCall.calls}
                 => /\ TheCall.calls[1] = Call("fetch_order", "-")
                    /\ TheCall.ord.venue # "primary"
                    /\ TheCall.f # "primary"

\* C15 (as stated): a pass of task k that is over, in an except block or not,
\* leaves the rest of the iteration's symbols to be visited, and the task goes
\* on with them or sleeps until the next iteration.
C15_PassFailureKeepsIteration ==
    [][\A k \in LoopTasks :
          (ev'.op \in {"pass", "resume"} /\ ev'.task = k /\ lpc'[k] # "notify")
             => /\ todo'[k] = Tail(todo[k])
                /\ lpc'[k] = IF todo'[k] = <<>> THEN "sleep" ELSE "checking"]_vars

\* C21 (as stated): once the entry order is placed in a live run, a leg whose
\* placer returned no id does not stop the pipeline: the take-profit is still
\* attempted after a failed stop-loss, and the trade is recorded with the ids
\* the placers returned, absent for the failed leg.
C21_LegFailureKeepsPipeline ==
    (ev.op = "execute" /\ ~dry_run /\ ev.entry = "ok"
        /\ (ev.sl = "none" \/ ev.tp = "none"))
        => /\ LegOrders(ev.calls, "TAKE_PROFIT_MARKET") # <<>>
           /\ ev.stored
           /\ trades[active_trades[ev.sym]].sl_order_id = ev.sl
           /\ trades[active_trades[ev.sym]].tp_order_id = ev.tp

\* how many times a step made the call c
CountOf(calls, c) == Len(SelectSeq(calls, LAMBDA e : e = c))

\* the exchange calls of execute_signal and its placers
ExecuteCalls ==
    {Call("set_leverage", "-"), Call("fetch_balance", "-"),
     Call("create_market_order", "MARKET")}
    \cup {Call(api, type) : api \in {"create_order", "algoOrder_post"},
                           type \in ConditionalTypes}

\* C22: within one execute_signal the leverage call, the balance fetch and
\* the entry order are made at most once each, and each conditional leg sees
\* at most one create_order and at most one algo placement.
C22_NoRetry ==
    ev.op = "execute" =>
        /\ \A c \in ExecuteCalls : CountOf(ev.calls, c) <= 1
        /\ \A i \in DOMAIN ev.calls :
              ev.calls[i] \in ExecuteCalls \/ ev.calls[i].api \in TelegramApis

\* both legs went to the algo endpoint and were refused there
C22_Witness ==
    /\ ev.op = "execute"
    /\ ev.x.slP = "e4120" /\ ev.x.slA = "fail"
    /\ ev.x.tpP = "e4120" /\ ev.x.tpA = "fail"
    /\ Len(SelectSeq(ev.calls, LAMBDA c : c \in ExecuteCalls)) = 7

\* C23: a forward or a target notification that failed changes nothing of
\* what follows it.  The step handle_message takes after a failed forward
\* parses the text, and executes it unless parse_signal returned None; the
\* step a pass takes after a failed target notification sends the stop-loss
\* cancel if the trade holds the id, and removes the trade unless a dashboard
\* write raised and ended the pass in its except block.
C23_SinkFailureStaysInSink ==
    [][/\ (hpc = "forward" /\ ForwardOver("failed")) =>
              /\ ev'.text # "-"
              /\ ev'.op = "execute" <=>
                    (ev'.text = "signal" /\ "record_signal169" \notin ev'.x.D)
       /\ (ev'.op = "resume" /\ ev'.sink = "failed") =>
              /\ ev'.sl = "real" => CancelsSent(ev'.calls) = 1
              /\ active_trades'[ev'.sym] = 0 <=> ~ev'.raised
              /\ ev'.raised => dashFails' > dashFails]_vars

\* the target notification failed, the stop-loss was cancelled and the
\* trade removed
C23_Witness ==
    /\ ev.op = "resume"
    /\ ev.sink = "failed"
    /\ ev.sl = "real"
    /\ CancelsSent(ev.calls) = 1
    /\ ev.removed = ev.trade
    /\ ~Present(ev.sym)

\* the exchange calls of a status lookup and of a cancel
StatusApis == {"fetch_order", "algoOrder_get"}
CancelApis == {"cancel_order", "algoOrder_delete"}

\* task k is about to reconcile a trade whose take-profit leg it will look up
\* and whose order the exchange reports closed
TargetReadsClosed(k) ==
    /\ lpc[k] = "checking"
    /\ todo[k] # <<>>
    /\ Present(Head(todo[k]))
    /\ LET t == active_trades[Head(todo[k])]
       IN  /\ trades[t].tp_order_id = "real"
           /\ ~trades[t].tp1_notified
           /\ _get_conditional_order_status("real", orders[t].tp, "none").ret = "closed"

\* C30: a pass looks the take-profit leg up before the stop-loss; when the
\* lookup gives closed the pass makes no stop-loss lookup, no position fetch
\* and no take-profit cancel: up to the notification it makes the take-profit
\* lookup only, and after it only the stop-loss cancel.
C30_TargetClosedEndsThePass ==
    [][/\ \A k \in LoopTasks :
             (TargetReadsClosed(k) /\ ev'.op = "pass" /\ ev'.task = k /\ ~ev'.qfail)
                => ev'.seen = "tp_closed"
       /\ (ev'.op = "pass" /\ ev'.seen = "tp_closed") =>
             \A i \in DOMAIN ev'.calls :
                \/ ev'.calls[i].api \in StatusApis /\ ev'.calls[i].arg = "tp"
                \/ ev'.calls[i].api \in TelegramApis
       /\ ev'.op = "resume" =>
             \A i \in DOMAIN ev'.calls :
                ev'.calls[i].api \in CancelApis /\ ev'.calls[i].arg = "sl"
       /\ ev'.op = "pass" =>
             \A i, j \in DOMAIN ev'.calls :
                (i < j /\ ev'.calls[i].api \in StatusApis /\ ev'.calls[i].arg = "sl")
                   => ~(ev'.calls[j].api \in StatusApis /\ ev'.calls[j].arg = "tp")]_vars

\* a pass found the take-profit closed while the position is closed and the
\* stop-loss order still open, and stopped at the notification
C30_Witness ==
    /\ ev.op = "pass"
    /\ ev.seen = "tp_closed"
    /\ lpc[ev.task] = "notify"
    /\ position[ev.sym] = 0
    /\ orders[ev.trade].sl.status = "open"
    /\ Len(ev.calls) = 2

\* the text, the raising dashboard calls and the result of the parse of
\* which ev tells
Parsed == ev.obs[1]

\* the targets of a text that lie on the take-profit side of its entry price
ProfitSide(text) ==
    {text.found[i] : i \in {j \in DOMAIN text.found :
        IF text.marker = "long" THEN text.found[j] > text.entry
        ELSE text.found[j] < text.entry}}

Distance(a, b) == IF a < b THEN b - a ELSE a - b

\* C24 (as stated): the one target of a parsed signal is the least of the
\* prices found for LONG and the greatest for SHORT, and it is the price
\* nearest to the entry price among those on the take-profit side of it.
C24_FirstTargetIsNearestProfit ==
    (ev.op = "parse" /\ Parsed.ret.kind = "signal") =>
        LET text == Parsed.text
            first == Parsed.ret.targets[1]
            found == {text.found[i] : i \in DOMAIN text.found}
        IN  /\ Len(Parsed.ret.targets) = 1
            /\ first \in found
            /\ \A p \in found : IF text.marker = "long" THEN first <= p ELSE first >= p
            /\ first \in ProfitSide(text)
            /\ \A p \in ProfitSide(text) :
                  Distance(first, text.entry) <= Distance(p, text.entry)

\* C25 (as stated): a text that lacks the direction marker, the symbol, the
\* leverage, the entry price or every target parses to None, and a text
\* parsed again gives the result it gave before.
C25_ParseIsAFunctionOfTheText ==
    [][ev'.op = "parse" =>
          /\ ~Complete(ev'.obs[1].text) => ev'.obs[1].ret = NoMsg
          /\ ev.op = "parse" => ev'.obs[1].ret = ev.obs[1].ret]_vars

\* C26 (as stated): a text holding every field parses to its TradingSignal
\* whether or not record_signal or append_log raises.
C26_RecordingDoesNotChangeTheParse ==
    (ev.op = "parse" /\ Complete(Parsed.text)) =>
        /\ Parsed.ret.kind = "signal"
        /\ Parsed.ret = SignalParser(Parsed.text, {})

\* ------------------------------------------------- the orders of one signal
Orders == ev.obs[1]

\* the quantity of an execute_signal run is balance * 0.15 * leverage /
\* entry_price truncated down to the step of 1/QtyScale, never above the
\* exact quotient; sized for (1000, 100, 10) it is example (in 1/QtyScale);
\* a balance of 0 ends the run in failure before any order
SizeIsTruncated(example) ==
    ev.op = "orders" =>
       LET b == ev.x.bal
           e == Orders.signal.entry_price
           l == Orders.signal.leverage
           q == Orders.position_size
           exact == b * BalancePercent * l * QtyScale    \* times 100 * e * LevScale
       IN  /\ b > 0 =>
                /\ q * 100 * e * LevScale <= exact
                /\ exact < (q + 1) * 100 * e * LevScale
                /\ ev.abort # "balance"
           /\ (b = 1000 /\ e = 100 /\ l = 10 * LevScale) => q = example
           /\ b = 0 => /\ ev.ret = "fail"
                       /\ Orders.requests = <<>>

\* C27 (as stated): the quantity is balance * fraction * leverage /
\* entryPrice truncated down to the step and never rounded up, the quantity
\* for balance 1000, entry price 100, leverage 10 and fraction 0.15 is 1.5,
\* and a balance of 0 yields a failure.
C27_AsStated == SizeIsTruncated(1500)

\* C27 (amended): the same, with the quantity for balance 1000, entry price
\* 100, leverage 10 and fraction 0.15 being 15.
C27_SizeIsTruncated == SizeIsTruncated(15000)

C27_Witness ==
    /\ ev.op = "orders"
    /\ ev.x.bal = 1000
    /\ Orders.signal.entry_price = 100
    /\ Orders.signal.leverage = 10 * LevScale
    /\ Orders.position_size = 15000
    /\ Len(Orders.requests) >= 1

StopRequests ==
    {i \in DOMAIN Orders.requests : Orders.requests[i].type = "STOP_MARKET"}

Abs(n) == IF n < 0 THEN -n ELSE n

\* price is the fraction num / den to the nearest tick of the market
NearestTick(market, price, num, den) ==
    /\ price.den = market.ticks
    /\ 2 * Abs(price.num * den - num * market.ticks) <= den

\* C28: the stop price of an execute_signal run is entry_price * (1 - 1.70 /
\* leverage) for a long and entry_price * (1 + 1.70 / leverage) for a short,
\* 83 and 117 at entry price 100 and leverage 10 (on the secondary endpoint
\* to the nearest price tick), and every stop order is a reduce-only order on
\* the closing side (sell for a long, buy for a short) for the entry quantity.
C28_StopPriceAndCloseSide ==
    ev.op = "orders" =>
       \A i \in StopRequests :
          LET r == Orders.requests[i]
              signal == Orders.signal
              e == signal.entry_price
              l == signal.leverage
              long == signal.direction = "BUY"
              num == IF long THEN e * (100 * l - 170 * LevScale)
                     ELSE e * (100 * l + 170 * LevScale)
              den == 100 * l
              entry == Orders.requests[1]
          IN  /\ entry.type = "MARKET"
              /\ r.side = (IF long THEN "sell" ELSE "buy")
              /\ r.side # entry.side
              /\ r.reduceOnly
              /\ Sent(Orders.market, r).amount = Sent(Orders.market, entry).amount
              /\ r.api = "create_order" =>
                    /\ r.amount = Orders.position_size
                    /\ r.price.num * den = num * r.price.den
                    /\ (e = 100 /\ l = 10 * LevScale) =>
                          r.price.num = (IF long THEN 83 ELSE 117) * r.price.den
              /\ r.api = "algoOrder_post" =>
                    /\ NearestTick(Orders.market, r.price, num, den)
                    /\ (e = 100 /\ l = 10 * LevScale) =>
                          r.price.num = (IF long THEN 83 ELSE 117) * r.price.den

\* a short at 100 with leverage 10 whose stop order was refused by the
\* primary endpoint with -4120 and went to the secondary one, both at 117
C28_Witness ==
    /\ ev.op = "orders"
    /\ Orders.signal.direction = "SELL"
    /\ Orders.signal.entry_price = 100
    /\ Orders.signal.leverage = 10 * LevScale
    /\ \E i, j \in StopRequests :
          /\ Orders.requests[i].api = "create_order"
          /\ Orders.requests[i].price.num = 117 * Orders.requests[i].price.den
          /\ Orders.requests[j].api = "algoOrder_post"
          /\ Orders.requests[j].price.num = 117 * Orders.market.ticks
          /\ Orders.requests[j].side = "buy"

\* a whole number of quantity steps, and a whole number of price ticks
OnStep(market, amount) == amount > 0 /\ amount % market.step = 0
OnTick(market, price) == (price.num * market.ticks) % price.den = 0

C31_AlgoOnlyAfterRefusal ==
    ev.op = "execute" =>
       \A leg \in {<<"STOP_MARKET", "slP">>, <<"TAKE_PROFIT_MARKET", "tpP">>} :
          LET type == leg[1]
              primary == ev.x[leg[2]]
          IN  /\ AlgoPosts(ev.calls, type) # <<>> =>
                    /\ primary = "e4120"
                    /\ LegOrders(ev.calls, type) = BothAttempts(type)
              /\ primary \in {"ok", "err"} => AlgoPosts(ev.calls, type) = <<>>

\* the stop-loss failed on the primary endpoint with another error and was
\* not retried, the take-profit was refused with -4120 and went to the algo
\* endpoint
C31_Witness ==
    /\ ev.op = "execute"
    /\ ev.x.slP = "err"
    /\ LegOrders(ev.calls, "STOP_MARKET") = <<Call("create_order", "STOP_MARKET")>>
    /\ ev.x.tpP = "e4120"
    /\ LegOrders(ev.calls, "TAKE_PROFIT_MARKET") = BothAttempts("TAKE_PROFIT_MARKET")

\* ------------------------------------------------- the order of the pipeline
\* every call b of calls comes after a call a
After(calls, a, b) ==
    \A i \in DOMAIN calls :
       calls[i] = b => \E j \in 1..(i - 1) : calls[j] = a

\* C32: in an execute_signal run a stop-loss or take-profit order is
\* submitted only after the market entry order of the run was submitted and
\* succeeded; the entry order only after set_leverage succeeded and the
\* balance fetched after it and the quantity were positive; and the ledger
\* is written only when both placers are through, with the ids they gave.
C32_PipelineOrder ==
    ev.op = "execute" =>
       LET entry == Call("create_market_order", "MARKET")
           legs == {c \in ExecuteCalls : c.arg \in ConditionalTypes}
       IN  /\ \A c \in legs : After(ev.calls, entry, c)
           /\ (\E i \in DOMAIN ev.calls : ev.calls[i] \in legs) =>
                 /\ ev.x.mkt
                 /\ ev.entry = "ok"
           /\ After(ev.calls, Call("fetch_balance", "-"), entry)
           /\ After(ev.calls, Call("set_leverage", "-"), Call("fetch_balance", "-"))
           /\ CountOf(ev.calls, entry) > 0 =>
                 /\ ev.x.lev
                 /\ ev.x.bal > 0
                 /\ ev.abort \notin {"leverage", "balance", "quantity"}
           /\ ev.stored =>
                 /\ ev.entry = "ok"
                 /\ ~dry_run =>
                       /\ LegOrders(ev.calls, "STOP_MARKET") # <<>>
                       /\ LegOrders(ev.calls, "TAKE_PROFIT_MARKET") # <<>>
                 /\ trades[active_trades[ev.sym]].sl_order_id = ev.sl
                 /\ trades[active_trades[ev.sym]].tp_order_id = ev.tp

\* a live run that went through the whole pipeline: the stop-loss was
\* refused with -4120 and placed on the algo endpoint, then the take-profit
\* was placed, then the trade was stored
C32_Witness ==
    /\ ev.op = "execute"
    /\ ~dry_run
    /\ ev.stored
    /\ SelectSeq(ev.calls, LAMBDA c : c \in ExecuteCalls) =
          <<Call("set_leverage", "-"), Call("fetch_balance", "-"),
            Call("create_market_order", "MARKET")>>
          \o BothAttempts("STOP_MARKET")
          \o <<Call("create_order", "TAKE_PROFIT_MARKET")>>

\* ---------------------------------------------------- discarded messages
\* C33: a message without a direction marker, and a marked message that
\* lacks a required field, ends handle_message with no exchange call and no
\* change of the ledger or of the orders and positions at the exchange, and
\* handle_message is through with it.
C33_UnusableMessageIsDiscarded ==
    [][/\ (hpc \in {"idle", "forward"} /\ ev'.text = "malformed") =>
              /\ ev'.op = "discard"
              /\ ev'.calls = <<>>
              /\ hpc' = "idle"
              /\ UNCHANGED <<ledger, exchange>>
       /\ (hpc = "idle" /\ ev'.op = "discard" /\ ev'.text = "-") =>
              /\ ev'.calls = <<>>
              /\ hpc' = "idle"
              /\ UNCHANGED <<ledger, exchange>>]_vars

\* a marked text without one of the fields was discarded while the ledger
\* held a trade
C33_Witness ==
    /\ ev.op = "discard"
    /\ ev.text = "malformed"
    /\ hpc = "idle"
    /\ \E sym \in Symbols : Present(sym)

\* ------------------------------------------- a take-profit leg found closed
ClosedStatuses == {"filled", "canceled", "rejected", "expired"}

\* C34 (as stated): a pass that finds the take-profit leg closed, whether the
\* order was filled, canceled, rejected or expired, sends the target
\* notification, and when the notification is over cancels the stop-loss the
\* trade holds and removes the ActiveTrade.
C34_ClosedTargetHandledAlike ==
    [][/\ (ev'.op = "pass" /\ ev'.seen = "tp_closed") =>
              /\ orders[ev'.trade].tp.status \in ClosedStatuses
              /\ ~ev'.raised
              /\ ev'.calls[Len(ev'.calls)] = Call("send_message", "target")
              /\ lpc'[ev'.task] = "notify"
       /\ ev'.op = "resume" =>
              /\ ev'.sl = "real" => CancelsSent(ev'.calls) = 1
              /\ ev'.removed # 0
              /\ active_trades'[ev'.sym] = 0]_vars

\* ------------------------------------------------ a pass that resolves nothing
\* the step left the ledger, the orders and the counts of cancels and
\* notifications as they were, and made no cancel and no notification call
QuietStep ==
    /\ UNCHANGED <<ledger, orders, counters>>
    /\ \A i \in DOMAIN ev'.calls :
          ev'.calls[i].api \notin CancelApis \cup TelegramApis
    /\ lpc'[ev'.task] # "notify"
    /\ ~ev'.raised

\* the legs whose ids trade t holds are open at the exchange
LegsOpen(t) ==
    /\ trades[t].sl_order_id = "real" => orders[t].sl.status = "open"
    /\ trades[t].tp_order_id = "real" => orders[t].tp.status = "open"

\* C35: a pass over a trade whose legs are open at the exchange, or cannot be
\* looked up, while the position is not zero, and every pass in which no leg
\* is reported closed and the position is not zero or cannot be fetched,
\* leaves the ledger unchanged, cancels nothing and notifies nobody.
C35_UnresolvedPassChangesNothing ==
    [][/\ (ev'.op = "pass" /\ ev'.trade # 0 /\ LegsOpen(ev'.trade)
             /\ position[ev'.sym] # 0) =>
              /\ ev'.seen = "none"
              /\ QuietStep
       /\ (ev'.op = "pass" /\ ev'.seen = "none") => QuietStep]_vars

\* a live pass met a lookup that failed, fetched the position and left the
\* trade in the ledger
C35_Witness ==
    /\ ev.op = "pass"
    /\ ev.seen = "none"
    /\ ev.qfail
    /\ ~dry_run
    /\ \E i \in DOMAIN ev.calls : ev.calls[i].api = "fetch_positions"
    /\ active_trades[ev.sym] = ev.trade
    /\ ev.trade # 0

\* ---------------------------------------------- removal whatever the cancel
\* the pass of which ev tells has resolved its trade and is over
ResolvedPassOver ==
    \/ TpPassOver
    \/ ev.op = "pass" /\ ev.seen \in {"sl_closed", "pos_zero"}

\* C36 (as stated): a pass that resolves a trade (take-profit closed,
\* stop-loss closed, or position zero) has removed the ActiveTrade when it
\* is over, whether the cancels it sent succeeded or failed, and no leg of a
\* trade is sent a cancel by more than one pass.
C36_ResolvedTradeIsRemoved ==
    /\ ResolvedPassOver =>
          /\ ev.removed # 0
          /\ active_trades[ev.sym] = 0
    /\ \A t \in TradeIds : \A leg \in Legs : cancelCalls[t][leg] <= 1
    /\ ev.op \in {"pass", "resume"} => (ev.nsl <= 1 /\ ev.ntp <= 1)

\* ------------------------------------------------------- passes of a dry run
\* C37: in a dry run a pass makes no status lookup, no position fetch and no
\* cancel, and removes no ActiveTrade; a symbol that is a key of the ledger
\* stays one, and its trade changes only by execute_signal storing a new one.
C37_DryRunPassIsIdle ==
    [][dry_run =>
          /\ ev'.op \in {"pass", "resume"} =>
                /\ ev'.calls = <<>>
                /\ ev'.removed = 0
                /\ ev'.seen \in {"none", "absent"}
                /\ UNCHANGED <<ledger, exchange>>
          /\ \A s \in Symbols : Present(s) => active_trades'[s] # 0
          /\ ledger' # ledger => (ev'.op = "execute" /\ ev'.stored)]_vars

\* a pass of a dry run over a stored trade with its synthetic ids
C37_Witness ==
    /\ dry_run
    /\ ev.op = "pass"
    /\ ev.seen = "none"
    /\ ev.sl = "dry" /\ ev.tp = "dry"
    /\ active_trades[ev.sym] = ev.trade
    /\ ev.trade # 0

\* ------------------------------------------------------- the leverage sent
\* C38 (as stated): the leverage an execute_signal run sends in its
\* set_leverage call is the leverage of the signal, with which the run
\* computes the quantity and the stop price, also when it is no whole number.
C38_LeverageSentIsLeverageUsed ==
    (ev.op = "orders" /\ CountOf(ev.calls, Call("set_leverage", "-")) = 1) =>
        Orders.leverage_set = Orders.signal.leverage

\* --------------------------------------------------- the side of the stop
\* C39 (as stated): for a leverage of at least 1 and a positive entry price
\* every stop price handed to the exchange is above zero and on the loss
\* side of the entry price: below it for a long, above it for a short.
C39_StopOnLossSide ==
    ev.op = "orders" =>
       \A i \in StopRequests :
          LET price == Sent(Orders.market, Orders.requests[i]).price
              signal == Orders.signal
          IN  (signal.leverage >= LevScale /\ signal.entry_price > 0) =>
                 /\ price.num > 0
                 /\ IF signal.direction = "BUY"
                    THEN price.num < signal.entry_price * price.den
                    ELSE price.num > signal.entry_price * price.den

=============================================================================
